---------------------------- MODULE Spec2Model ----------------------------
(* statsd_exporter: the StatsD wire parser (lineToEvents, handlePacket),   *)
(* the Exporter (handleEvent, removeStaleMetrics, Listen) and the metric   *)
(* family containers of src/exporter.go, as a state machine.               *)
(*                                                                         *)
(* Strings are sequences of one-character strings (bytes).  Floats are     *)
(* exact rationals <<num, den>> in lowest terms with den > 0; the inputs   *)
(* are plain decimals, and the rounding of float64 is left out.  Time is   *)
(* counted in seconds.                                                     *)
EXTENDS Integers, Sequences, FiniteSets, TLC

-----------------------------------------------------------------------------
(* Bytes and strings                                                       *)

\* A byte that cannot occur in valid UTF-8 (0xFF).
InvalidByte == "\\xff"

Digits == {"0", "1", "2", "3", "4", "5", "6", "7", "8", "9"}

DigitVal(ch) ==
  CASE ch = "0" -> 0 [] ch = "1" -> 1 [] ch = "2" -> 2 [] ch = "3" -> 3
    [] ch = "4" -> 4 [] ch = "5" -> 5 [] ch = "6" -> 6 [] ch = "7" -> 7
    [] ch = "8" -> 8 [] ch = "9" -> 9

Letters == {"a", "b", "c", "g", "h", "j", "k", "m", "s", "t", "v", "w", "z"}

\* utf8.ValidString
ValidString(s) == \A i \in 1..Len(s) : s[i] # InvalidByte

\* s[from:] of Go (from is 0-based there, 1-based here: the first kept index)
Drop(s, n) == SubSeq(s, n + 1, Len(s))

\* index of the first occurrence of byte ch in s, 0 when absent
IndexByte(s, ch) ==
  IF \E i \in 1..Len(s) : s[i] = ch
    THEN CHOOSE i \in 1..Len(s) : s[i] = ch /\ \A j \in 1..(i - 1) : s[j] # ch
    ELSE 0

\* strings.Split(s, sep) for a one-byte separator
RECURSIVE Split(_, _)
Split(s, sep) ==
  LET i == IndexByte(s, sep)
  IN IF i = 0 THEN <<s>>
     ELSE <<SubSeq(s, 1, i - 1)>> \o Split(Drop(s, i), sep)

\* strings.SplitN(s, sep, 2) for a one-byte separator
SplitN2(s, sep) ==
  LET i == IndexByte(s, sep)
  IN IF i = 0 THEN <<s>> ELSE <<SubSeq(s, 1, i - 1), Drop(s, i)>>

\* strings.Contains(s, sub)
Contains(s, sub) ==
  \E i \in 1..(Len(s) - Len(sub) + 1) : SubSeq(s, i, i + Len(sub) - 1) = sub

\* strings.TrimPrefix(s, "#")
TrimPrefix(s, ch) == IF Len(s) > 0 /\ s[1] = ch THEN Drop(s, 1) ELSE s

\* strings.Index(s, ch) == 0
HasPrefixByte(s, ch) == Len(s) > 0 /\ s[1] = ch

-----------------------------------------------------------------------------
(* float64 values of plain decimals, as rationals                          *)

Abs(n) == IF n < 0 THEN -n ELSE n

RECURSIVE GCD(_, _)
GCD(a, b) == IF b = 0 THEN a ELSE GCD(b, a % b)

Rat(n, d) ==
  LET g == GCD(Abs(n), d)
  IN IF n = 0 THEN <<0, 1>> ELSE <<n \div g, d \div g>>

Zero == Rat(0, 1)
One == Rat(1, 1)

RatAdd(x, y) == Rat(x[1] * y[2] + y[1] * x[2], x[2] * y[2])

\* x / y for y # 0
RatDiv(x, y) ==
  IF y[1] > 0 THEN Rat(x[1] * y[2], x[2] * y[1])
  ELSE Rat(-(x[1] * y[2]), x[2] * (-y[1]))

RatLess(x, y) == x[1] * y[2] < y[1] * x[2]

\* int(x): conversion of a float to int truncates toward zero
Trunc(x) == IF x[1] >= 0 THEN x[1] \div x[2] ELSE -((-x[1]) \div x[2])

RECURSIVE Pow10(_)
Pow10(n) == IF n = 0 THEN 1 ELSE 10 * Pow10(n - 1)

RECURSIVE DigitsVal(_)
DigitsVal(s) ==
  IF s = <<>> THEN 0 ELSE 10 * DigitsVal(SubSeq(s, 1, Len(s) - 1)) + DigitVal(s[Len(s)])

AllDigits(s) == \A i \in 1..Len(s) : s[i] \in Digits

\* strconv.ParseFloat(s, 64) on the decimal forms [+-]ddd[.ddd]: the value and
\* whether it failed.  A syntax error returns 0 with the error.
ParseFloat(s) ==
  LET neg == HasPrefixByte(s, "-")
      body == IF HasPrefixByte(s, "+") \/ neg THEN Drop(s, 1) ELSE s
      parts == SplitN2(body, ".")
      ip == parts[1]
      fp == IF Len(parts) = 2 THEN parts[2] ELSE <<>>
      ok == /\ AllDigits(ip) /\ AllDigits(fp)
            /\ Len(ip) + Len(fp) > 0
      mag == DigitsVal(ip \o fp)
  IN IF ok
       THEN [err |-> FALSE, val |-> Rat(IF neg THEN -mag ELSE mag, Pow10(Len(fp)))]
       ELSE [err |-> TRUE, val |-> Zero]

-----------------------------------------------------------------------------
(* Events                                                                  *)

EmptyLabels == [n \in {} |-> <<>>]

CounterEvent(metric, value, labels) ==
  [kind |-> "counter", metricName |-> metric, value |-> value, labels |-> labels]

GaugeEvent(metric, value, relative, labels) ==
  [kind |-> "gauge", metricName |-> metric, value |-> value,
   relative |-> relative, labels |-> labels]

TimerEvent(metric, value, labels) ==
  [kind |-> "timer", metricName |-> metric, value |-> value, labels |-> labels]

\* buildEvent: the event, or an error for "s" and unknown stat types
buildEvent(statType, metric, value, relative, labels) ==
  CASE statType = <<"c">> ->
         [err |-> FALSE, event |-> CounterEvent(metric, value, labels)]
    [] statType = <<"g">> ->
         [err |-> FALSE, event |-> GaugeEvent(metric, value, relative, labels)]
    [] statType \in {<<"m", "s">>, <<"h">>} ->
         [err |-> FALSE, event |-> TimerEvent(metric, value, labels)]
    [] OTHER -> [err |-> TRUE, event |-> <<>>]

-----------------------------------------------------------------------------
(* Name sanitization                                                       *)

LegalChars == Letters \cup Digits \cup {"_"}

\* escapeMetricName reads metricName[0]: an index out of range on "".
escapeMetricNamePanics(metricName) == Len(metricName) = 0

\* illegalCharsRE.ReplaceAllString(metricName, "_")
ReplaceIllegal(s) ==
  [i \in 1..Len(s) |-> IF s[i] \in LegalChars THEN s[i] ELSE "_"]

\* escapeMetricName with the underscore prepended to every name
escapeMetricNamePrefixed(metricName) == ReplaceIllegal(<<"_">> \o metricName)

\* escapeMetricName, for a non-empty name
escapeMetricName(metricName) ==
  ReplaceIllegal(IF metricName[1] \in Digits THEN <<"_">> \o metricName
                 ELSE metricName)

-----------------------------------------------------------------------------
(* The parser                                                              *)

\* F(v) with v evaluated once (a local variable of the code)
Let(v, F(_)) == CHOOSE y \in {F(x) : x \in {v}} : TRUE

\* parseDogStatsDTagsToLabels: the loop over the tags from tag i on.
\* st = [labels, tagErrors, panic]
RECURSIVE TagsLoop(_, _, _)
TagsLoop(tags, i, st) ==
  IF i > Len(tags) \/ st.panic THEN st
  ELSE Let(SplitN2(TrimPrefix(tags[i], "#"), ":"), LAMBDA kv :
         IF Len(kv) < 2 \/ Len(kv[2]) = 0
           THEN TagsLoop(tags, i + 1, [st EXCEPT !.tagErrors = @ + 1])
         ELSE IF escapeMetricNamePanics(kv[1])
           THEN [st EXCEPT !.panic = TRUE]
         ELSE Let([st EXCEPT !.labels = (escapeMetricName(kv[1]) :> kv[2]) @@ @],
                  LAMBDA st1 : TagsLoop(tags, i + 1, st1)))

parseDogStatsDTagsToLabels(component) ==
  Let(Split(component, ","), LAMBDA tags :
    TagsLoop(tags, 1, [labels |-> EmptyLabels, tagErrors |-> 0, panic |-> FALSE]))

\* case '@' with value *= samplingFactor for a counter
SamplingFactorTimes(component, statType, st) ==
  IF statType # <<"c">> /\ statType # <<"m", "s">>
    THEN [st EXCEPT !.errs = Append(@, "illegal_sample_factor")]
  ELSE Let(ParseFloat(Drop(component, 1)), LAMBDA pf :
         Let(IF pf.val = Zero THEN One ELSE pf.val, LAMBDA samplingFactor :
           Let(IF pf.err THEN Append(st.errs, "invalid_sample_factor")
               ELSE st.errs, LAMBDA errs :
             IF statType = <<"c">>
               THEN [st EXCEPT !.errs = errs,
                               !.value = RatDiv(@, RatDiv(One, samplingFactor))]
               ELSE [st EXCEPT !.errs = errs,
                               !.multiplyEvents =
                                  Trunc(RatDiv(One, samplingFactor))])))

\* case '@' with multiplyEvents rounded to the nearest integer for a timer
SamplingFactorRounded(component, statType, st) ==
  IF statType # <<"c">> /\ statType # <<"m", "s">>
    THEN [st EXCEPT !.errs = Append(@, "illegal_sample_factor")]
  ELSE Let(ParseFloat(Drop(component, 1)), LAMBDA pf :
         Let(IF pf.val = Zero THEN One ELSE pf.val, LAMBDA samplingFactor :
           Let(IF pf.err THEN Append(st.errs, "invalid_sample_factor")
               ELSE st.errs, LAMBDA errs :
             IF statType = <<"c">>
               THEN [st EXCEPT !.errs = errs,
                               !.value = RatDiv(@, samplingFactor)]
               ELSE [st EXCEPT !.errs = errs,
                               !.multiplyEvents =
                                  Trunc(RatAdd(RatDiv(One, samplingFactor),
                                               Rat(1, 2)))])))

\* case '@' of the switch on component[0]
\* st = [value, multiplyEvents, labels, errs, tagsReceived, tagErrors, panic]
SamplingFactor(component, statType, st) ==
  IF statType # <<"c">> /\ statType # <<"m", "s">>
    THEN [st EXCEPT !.errs = Append(@, "illegal_sample_factor")]
  ELSE Let(ParseFloat(Drop(component, 1)), LAMBDA pf :
         Let(IF pf.val = Zero THEN One ELSE pf.val, LAMBDA samplingFactor :
           Let(IF pf.err THEN Append(st.errs, "invalid_sample_factor")
               ELSE st.errs, LAMBDA errs :
             IF statType = <<"c">>
               THEN [st EXCEPT !.errs = errs,
                               !.value = RatDiv(@, samplingFactor)]
               ELSE [st EXCEPT !.errs = errs,
                               !.multiplyEvents =
                                  Trunc(RatDiv(One, samplingFactor))])))

\* case '#' of the switch on component[0]
TagSection(component, st) ==
  Let(parseDogStatsDTagsToLabels(component), LAMBDA r :
    [st EXCEPT !.labels = r.labels,
               !.tagsReceived = @ + 1,
               !.tagErrors = @ + r.tagErrors,
               !.panic = r.panic])

\* The loop over the modifiers components[i..] of one sample
RECURSIVE ComponentsLoop(_, _, _, _)
ComponentsLoop(components, i, statType, st) ==
  IF i > Len(components) \/ st.panic THEN st
  ELSE Let(CASE components[i][1] = "@" ->
                  SamplingFactor(components[i], statType, st)
             [] components[i][1] = "#" -> TagSection(components[i], st)
             [] OTHER -> [st EXCEPT !.errs = Append(@, "invalid_sample_factor")],
           LAMBDA st1 : ComponentsLoop(components, i + 1, statType, st1))

\* for i := 0; i < multiplyEvents; i++ { buildEvent ... }
\* acc = [events, errs, labels]
RECURSIVE BuildLoop(_, _, _, _, _, _, _)
BuildLoop(i, multiplyEvents, statType, metric, value, relative, acc) ==
  IF i >= multiplyEvents THEN acc
  ELSE Let(buildEvent(statType, metric, value, relative, acc.labels), LAMBDA b :
         Let(IF b.err THEN [acc EXCEPT !.errs = Append(@, "illegal_event")]
             ELSE [acc EXCEPT !.events = Append(@, b.event)], LAMBDA acc1 :
           BuildLoop(i + 1, multiplyEvents, statType, metric, value, relative,
                     acc1)))

NoEvents(errs, tagsReceived, tagErrors, panic) ==
  [events |-> <<>>, errs |-> errs, tagsReceived |-> tagsReceived,
   tagErrors |-> tagErrors, panic |-> panic]

\* The sample from its modifiers on, the value parsed
Modifiers(components, metric, value) ==
  Let(ComponentsLoop(components, 3, components[2],
        [value |-> value, multiplyEvents |-> 1, labels |-> EmptyLabels,
         errs |-> <<>>, tagsReceived |-> 0, tagErrors |-> 0, panic |-> FALSE]),
      LAMBDA st :
    IF st.panic THEN NoEvents(st.errs, st.tagsReceived, st.tagErrors, TRUE)
    ELSE Let(BuildLoop(0, st.multiplyEvents, components[2], metric, st.value,
                       HasPrefixByte(components[1], "+")
                         \/ HasPrefixByte(components[1], "-"),
                       [events |-> <<>>, errs |-> st.errs, labels |-> st.labels]),
             LAMBDA b :
           [events |-> b.events, errs |-> b.errs,
            tagsReceived |-> st.tagsReceived, tagErrors |-> st.tagErrors,
            panic |-> FALSE]))

\* sampleToEvents without the continue after malformed_value: the sample is
\* built with the value ParseFloat returned
sampleToEventsNoContinue(sample, metric) ==
  Let(Split(sample, "|"), LAMBDA components :
    IF Len(components) < 2 \/ Len(components) > 4
      THEN NoEvents(<<"malformed_component">>, 0, 0, FALSE)
    ELSE Let(ParseFloat(components[1]), LAMBDA pf :
           IF \E j \in 3..Len(components) : Len(components[j]) = 0
             THEN NoEvents(<<"malformed_component">>, 0, 0, FALSE)
           ELSE Let(Modifiers(components, metric, pf.val), LAMBDA r :
                  IF pf.err THEN [r EXCEPT !.errs = <<"malformed_value">> \o @]
                  ELSE r)))

\* The body of the samples loop of lineToEvents for one sample: the events it
\* appends, the sampleErrors reasons it counts (in order), the tag counters,
\* and whether it panicked.
sampleToEvents(sample, metric) ==
  Let(Split(sample, "|"), LAMBDA components :
    IF Len(components) < 2 \/ Len(components) > 4
      THEN NoEvents(<<"malformed_component">>, 0, 0, FALSE)
    ELSE Let(ParseFloat(components[1]), LAMBDA pf :
           IF pf.err THEN NoEvents(<<"malformed_value">>, 0, 0, FALSE)
           ELSE IF \E j \in 3..Len(components) : Len(components[j]) = 0
             THEN NoEvents(<<"malformed_component">>, 0, 0, FALSE)
           ELSE Modifiers(components, metric, pf.val)))

\* The samples of a line whose name is followed by rest (elements[1])
SamplesOf(rest) ==
  IF Contains(rest, <<"|", "#">>) THEN <<rest>> ELSE Split(rest, ":")

\* The samples loop of lineToEvents from sample i on.
\* acc = [events, errs, samplesReceived, tagsReceived, tagErrors, panic]
RECURSIVE SamplesLoop(_, _, _, _)
SamplesLoop(samples, i, metric, acc) ==
  IF i > Len(samples) \/ acc.panic THEN acc
  ELSE Let(sampleToEvents(samples[i], metric), LAMBDA r :
         Let([events |-> acc.events \o r.events,
              errs |-> acc.errs \o r.errs,
              samplesReceived |-> acc.samplesReceived + 1,
              tagsReceived |-> acc.tagsReceived + r.tagsReceived,
              tagErrors |-> acc.tagErrors + r.tagErrors,
              panic |-> r.panic], LAMBDA acc1 :
           SamplesLoop(samples, i + 1, metric, acc1)))

NoSamples(errs) ==
  [events |-> <<>>, errs |-> errs, samplesReceived |-> 0, tagsReceived |-> 0,
   tagErrors |-> 0, panic |-> FALSE]

\* lineToEvents without the check of len(elements[0])
lineToEventsNoNameCheck(line) ==
  IF line = <<>> THEN NoSamples(<<>>)
  ELSE Let(SplitN2(line, ":"), LAMBDA elements :
         IF Len(elements) < 2 \/ ~ValidString(line)
           THEN NoSamples(<<"malformed_line">>)
           ELSE Let(SamplesOf(elements[2]), LAMBDA samples :
                  SamplesLoop(samples, 1, elements[1], NoSamples(<<>>))))

\* lineToEvents without the check of utf8.ValidString(line)
lineToEventsNoUtf8Check(line) ==
  IF line = <<>> THEN NoSamples(<<>>)
  ELSE Let(SplitN2(line, ":"), LAMBDA elements :
         IF Len(elements) < 2 \/ Len(elements[1]) = 0
           THEN NoSamples(<<"malformed_line">>)
           ELSE Let(SamplesOf(elements[2]), LAMBDA samples :
                  SamplesLoop(samples, 1, elements[1], NoSamples(<<>>))))

\* lineToEvents: the events of a line, with the counters it increments
lineToEvents(line) ==
  IF line = <<>> THEN NoSamples(<<>>)
  ELSE Let(SplitN2(line, ":"), LAMBDA elements :
         IF Len(elements) < 2 \/ Len(elements[1]) = 0 \/ ~ValidString(line)
           THEN NoSamples(<<"malformed_line">>)
           ELSE Let(SamplesOf(elements[2]), LAMBDA samples :
                  SamplesLoop(samples, 1, elements[1], NoSamples(<<>>))))

\* The loop over the lines of handlePacket from line i on.
\* acc = [events, errs, linesReceived, samplesReceived, tagsReceived, tagErrors, panic]
RECURSIVE LinesLoop(_, _, _)
LinesLoop(lines, i, acc) ==
  IF i > Len(lines) \/ acc.panic THEN acc
  ELSE Let(lineToEvents(lines[i]), LAMBDA r :
         Let([events |-> acc.events \o r.events,
              errs |-> acc.errs \o r.errs,
              linesReceived |-> acc.linesReceived + 1,
              samplesReceived |-> acc.samplesReceived + r.samplesReceived,
              tagsReceived |-> acc.tagsReceived + r.tagsReceived,
              tagErrors |-> acc.tagErrors + r.tagErrors,
              panic |-> r.panic], LAMBDA acc1 :
           LinesLoop(lines, i + 1, acc1)))

\* handlePacket up to the channel send: the batch and the counters
handlePacket(packet) ==
  Let(Split(packet, "\n"), LAMBDA lines :
    LinesLoop(lines, 1,
              [events |-> <<>>, errs |-> <<>>, linesReceived |-> 0,
               samplesReceived |-> 0, tagsReceived |-> 0, tagErrors |-> 0,
               panic |-> FALSE]))

-----------------------------------------------------------------------------
(* The mapper: the ruleset in force (pkg/mapper, not in src/).             *)

Str_m == <<"m">>
Str_t == <<"t">>

Str_z == <<"z">>

\* A rule matches one literal metric name and one event kind ("" for any).
Rule(match, matchKind, name, labels, action, ttl, timerType) ==
  [match |-> match, matchKind |-> matchKind, Name |-> name, Labels |-> labels,
   Action |-> action, Ttl |-> ttl, TimerType |-> timerType]

\* TTL, in seconds, of the rule for "b"
RuleTtl == 1

Rules ==
  << Rule(<<"b">>, "", Str_m, EmptyLabels, "map", RuleTtl, ""),
     Rule(<<"t">>, "timer", Str_t, (<<"j">> :> <<"w">>), "map", 0, "histogram"),
     Rule(<<"z">>, "counter", Str_z, EmptyLabels, "drop", 0, "") >>

\* The defaults of the configuration: a TTL, in seconds, that outlasts the
\* clock of the model, and no timer type
Defaults == [Ttl |-> 5, TimerType |-> ""]

\* MetricMapper.GetMapping on a ruleset: the first rule that matches, its
\* labels, and whether one matched
GetMappingIn(rules, metricName, kind) ==
  LET hits == {i \in 1..Len(rules) :
                 /\ rules[i].match = metricName
                 /\ rules[i].matchKind \in {"", kind}}
  IN IF hits = {}
       THEN [nil |-> TRUE, present |-> FALSE]
       ELSE LET i == CHOOSE i \in hits : \A j \in hits : i <= j
            IN [nil |-> FALSE, present |-> TRUE, mapping |-> rules[i],
                labels |-> rules[i].Labels]

\* MetricMapper.GetMapping with the ruleset the mapper is started with
GetMapping(metricName, kind) == GetMappingIn(Rules, metricName, kind)

\* The configuration file after it is changed: the timer a is mapped to m,
\* a summary with a label, the timer t gets another value of its label and a
\* TTL, the timer b is mapped to m with no type, and timers are histograms
\* by default
ReloadedRules ==
  << Rule(<<"a">>, "timer", Str_m, (<<"k">> :> <<"y">>), "map", 0, "summary"),
     Rule(<<"t">>, "timer", Str_t, (<<"j">> :> <<"x">>), "map", RuleTtl,
          "histogram"),
     Rule(<<"b">>, "timer", Str_m, EmptyLabels, "map", 0, "") >>

ReloadedDefaults == [Ttl |-> 0, TimerType |-> "histogram"]

\* What InitFromFile loads: the file as it was at the start, and as changed
Configs ==
  << [Rules |-> Rules, Defaults |-> Defaults],
     [Rules |-> ReloadedRules, Defaults |-> ReloadedDefaults] >>

-----------------------------------------------------------------------------
(* The mapper cache (src/unnamed/part_001)                                 *)

\* A cache is the sequence of its entries [key, value], the most recently
\* used first.
IndexOfKey(c, key) ==
  IF \E i \in 1..Len(c) : c[i].key = key
    THEN CHOOSE i \in 1..Len(c) : c[i].key = key
    ELSE 0

RemoveAt(c, i) == SubSeq(c, 1, i - 1) \o SubSeq(c, i + 1, Len(c))

\* lru.Cache.Get without the move to the front
LruGetInPlace(c, key) ==
  IF IndexOfKey(c, key) = 0 THEN [ok |-> FALSE, cache |-> c]
  ELSE [ok |-> TRUE, value |-> c[IndexOfKey(c, key)].value, cache |-> c]

\* lru.Cache.Get: the value of the key, which becomes the most recently used
LruGet(c, key) ==
  IF IndexOfKey(c, key) = 0 THEN [ok |-> FALSE, cache |-> c]
  ELSE [ok |-> TRUE, value |-> c[IndexOfKey(c, key)].value,
        cache |-> <<c[IndexOfKey(c, key)]>> \o RemoveAt(c, IndexOfKey(c, key))]

\* lru.Cache.Add on a cache of the given size: the key becomes the most
\* recently used with the new value, and the oldest entry goes when the
\* cache holds more than size
LruAdd(c, size, key, value) ==
  IF IndexOfKey(c, key) # 0
    THEN <<[key |-> key, value |-> value]>> \o RemoveAt(c, IndexOfKey(c, key))
  ELSE IF Len(c) + 1 > size
    THEN <<[key |-> key, value |-> value]>> \o SubSeq(c, 1, Len(c) - 1)
  ELSE <<[key |-> key, value |-> value]>> \o c

NoMapping == <<>>

\* MetricMapperLRUCache.Get and MetricMapperNoopCache.Get
CacheGet(impl, c, metricString) ==
  IF impl = "noop" THEN [ok |-> FALSE, cache |-> c]
  ELSE LruGet(c, metricString)

\* AddMatch that stores the mapping without its labels
AddMatchNoLabels(impl, c, size, metricString, mapping, labels) ==
  IF impl = "noop" THEN c
  ELSE LruAdd(c, size, metricString,
              [Mapping |-> mapping, Matched |-> TRUE, Labels |-> EmptyLabels])

\* MetricMapperLRUCache.AddMatch and MetricMapperNoopCache.AddMatch
AddMatch(impl, c, size, metricString, mapping, labels) ==
  IF impl = "noop" THEN c
  ELSE LruAdd(c, size, metricString,
              [Mapping |-> mapping, Matched |-> TRUE, Labels |-> labels])

\* MetricMapperLRUCache.AddMiss and MetricMapperNoopCache.AddMiss
AddMiss(impl, c, size, metricString) ==
  IF impl = "noop" THEN c
  ELSE LruAdd(c, size, metricString,
              [Mapping |-> NoMapping, Matched |-> FALSE, Labels |-> EmptyLabels])

\* The key of a lookup: the metric name and the type code
CacheKey(metricName, kind) == <<metricName, kind>>

\* MetricMapper.GetMapping with its cache c: the cached decision on a hit,
\* and on a miss the decision of the rules, which is added to the cache
GetMappingCached(impl, c, size, metricName, kind) ==
  Let(CacheGet(impl, c, CacheKey(metricName, kind)), LAMBDA g :
    IF g.ok
      THEN [hit |-> TRUE, returned |-> g.value, cache |-> g.cache,
            m |-> IF g.value.Matched
                    THEN [nil |-> FALSE, present |-> TRUE,
                          mapping |-> g.value.Mapping, labels |-> g.value.Labels]
                    ELSE [nil |-> TRUE, present |-> FALSE]]
      ELSE Let(GetMapping(metricName, kind), LAMBDA m :
             [hit |-> FALSE, m |-> m,
              cache |-> IF m.present
                          THEN AddMatch(impl, g.cache, size,
                                        CacheKey(metricName, kind),
                                        m.mapping, m.labels)
                          ELSE AddMiss(impl, g.cache, size,
                                       CacheKey(metricName, kind))]))

-----------------------------------------------------------------------------
(* Metric family containers and the registry                               *)

\* labelNames(labels)
labelNames(labels) == DOMAIN labels

NoElements == [n \in {} |-> <<>>]

\* XContainer.Get with a Register that accepts a name registered already
GetUnchecked(Elements, registered, metricName, labels, zero) ==
  LET vec == IF metricName \in DOMAIN Elements THEN Elements[metricName]
             ELSE [labelNames |-> labelNames(labels), children |-> NoElements]
      els == (metricName :> vec) @@ Elements
      reg == registered \cup {metricName}
  IN IF labelNames(labels) # vec.labelNames
       THEN [err |-> TRUE, Elements |-> els, registered |-> reg]
     ELSE IF labels \in DOMAIN vec.children
       THEN [err |-> FALSE, Elements |-> els, registered |-> reg]
     ELSE [err |-> FALSE, registered |-> reg,
           Elements |-> (metricName :>
                           [vec EXCEPT !.children = (labels :> zero) @@ @])
                        @@ Elements]

\* XContainer.Get for the four containers: the vector of metricName is
\* created and registered when the container does not hold it, which fails
\* when the name is registered already; GetMetricWith then fails when the
\* label names differ from the vector's, and creates the child (with the
\* zero value) when it is not there.
Get(Elements, registered, metricName, labels, zero) ==
  IF metricName \notin DOMAIN Elements /\ metricName \in registered
    THEN [err |-> TRUE, Elements |-> Elements, registered |-> registered]
  ELSE
    LET vec == IF metricName \in DOMAIN Elements THEN Elements[metricName]
               ELSE [labelNames |-> labelNames(labels), children |-> NoElements]
        els == (metricName :> vec) @@ Elements
        reg == registered \cup {metricName}
    IN IF labelNames(labels) # vec.labelNames
         THEN [err |-> TRUE, Elements |-> els, registered |-> reg]
       ELSE IF labels \in DOMAIN vec.children
         THEN [err |-> FALSE, Elements |-> els, registered |-> reg]
       ELSE [err |-> FALSE, registered |-> reg,
             Elements |-> (metricName :>
                             [vec EXCEPT !.children = (labels :> zero) @@ @])
                          @@ Elements]

\* The child a successful Get returned
Child(Elements, metricName, labels) == Elements[metricName].children[labels]

SetChild(Elements, metricName, labels, v) ==
  [Elements EXCEPT ![metricName].children[labels] = v]

NoObservations == [count |-> 0, sum |-> Zero]

\* Observer.Observe
Observe(obs, v) == [count |-> obs.count + 1, sum |-> RatAdd(obs.sum, v)]

Thousand == Rat(1000, 1)

-----------------------------------------------------------------------------
(* The Exporter                                                            *)

\* hashNameAndLabels: the 64-bit FNV hash of the name and the label
\* signature, taken to be free of collisions
hashNameAndLabels(metricName, labels) == <<metricName, labels>>

\* saveLabelValues
saveLabelValues(labelValues, metricName, labels, ttl, now) ==
  LET metric == IF metricName \in DOMAIN labelValues THEN labelValues[metricName]
                ELSE NoElements
      hash == hashNameAndLabels(metricName, labels)
      kept == IF hash \in DOMAIN metric THEN metric[hash].labels ELSE labels
  IN (metricName :>
        ((hash :> [lastRegisteredAt |-> now, labels |-> kept, ttl |-> ttl])
           @@ metric))
     @@ labelValues

Inc(stats, label) ==
  (label :> (IF label \in DOMAIN stats THEN stats[label] ELSE 0) + 1) @@ stats

Count(stats, label) == IF label \in DOMAIN stats THEN stats[label] ELSE 0

\* The outcome of a container Get in handleEvent: on success the child is
\* updated to v, the label values are saved and eventStats{kind} counts; on
\* failure conflictingEventStats{kind} counts.
Settle(b, field, got, metricName, labels, v, ttl, kind, now) ==
  IF got.err
    THEN [b EXCEPT ![field] = got.Elements,
                   !.registered = got.registered,
                   !.conflictingEventStats = Inc(@, kind)]
    ELSE [b EXCEPT ![field] = SetChild(got.Elements, metricName, labels, v),
                   !.registered = got.registered,
                   !.labelValues = saveLabelValues(@, metricName, labels, ttl, now),
                   !.eventStats = Inc(@, kind)]

\* case *CounterEvent without the check of ev.Value() < 0.0
HandleCounterNoCheck(b, event, metricName, labels, ttl, now) ==
  Let(Get(b.Counters, b.registered, metricName, labels, Zero), LAMBDA got :
    Settle(b, "Counters", got, metricName, labels,
           IF got.err THEN Zero
           ELSE RatAdd(Child(got.Elements, metricName, labels), event.value),
           ttl, "counter", now))

\* case *CounterEvent
HandleCounter(b, event, metricName, labels, ttl, now) ==
  IF RatLess(event.value, Zero)
    THEN [b EXCEPT !.eventStats = Inc(@, "illegal_negative_counter")]
    ELSE Let(Get(b.Counters, b.registered, metricName, labels, Zero), LAMBDA got :
           Settle(b, "Counters", got, metricName, labels,
                  IF got.err THEN Zero
                  ELSE RatAdd(Child(got.Elements, metricName, labels), event.value),
                  ttl, "counter", now))

\* case *GaugeEvent that sets the gauge whether the event is relative or not
HandleGaugeSet(b, event, metricName, labels, ttl, now) ==
  Let(Get(b.Gauges, b.registered, metricName, labels, Zero), LAMBDA got :
    Settle(b, "Gauges", got, metricName, labels,
           IF got.err THEN Zero ELSE event.value,
           ttl, "gauge", now))

\* case *GaugeEvent
HandleGauge(b, event, metricName, labels, ttl, now) ==
  Let(Get(b.Gauges, b.registered, metricName, labels, Zero), LAMBDA got :
    Settle(b, "Gauges", got, metricName, labels,
           IF got.err THEN Zero
           ELSE IF event.relative
             THEN RatAdd(Child(got.Elements, metricName, labels), event.value)
             ELSE event.value,
           ttl, "gauge", now))

\* The container of a timer by the timer type of its mapping alone
TimerFieldOfRule(mapping, defaults) ==
  IF mapping.TimerType = "histogram" THEN "Histograms" ELSE "Summaries"

\* The container of a timer with this mapping, under the defaults read at
\* the switch on mapping.TimerType
TimerFieldWith(mapping, defaults) ==
  IF (IF mapping.TimerType = "" THEN defaults.TimerType ELSE mapping.TimerType)
       = "histogram"
    THEN "Histograms" ELSE "Summaries"

\* The container of a timer with this mapping
TimerField(mapping) == TimerFieldWith(mapping, Defaults)

\* case *TimerEvent
HandleTimer(b, event, mapping, defaults, metricName, labels, now) ==
  Let(Get(b[TimerFieldWith(mapping, defaults)], b.registered, metricName,
          labels, NoObservations), LAMBDA got :
    Settle(b, TimerFieldWith(mapping, defaults), got, metricName, labels,
           IF got.err THEN NoObservations
           ELSE Observe(Child(got.Elements, metricName, labels),
                        RatDiv(event.value, Thousand)),
           mapping.Ttl, "timer", now))

\* The mapping handleEvent works with: the rule GetMapping returned, or an
\* empty mapping with the default TTL
MappingWith(m, defaults) ==
  IF m.nil THEN Rule(<<>>, "", <<>>, EmptyLabels, "", defaults.Ttl, "")
  ELSE m.mapping

MappingOf(m) == MappingWith(m, Defaults)

\* handleEvent after the check of the action: the name, the labels, the
\* count of unmapped events and the switch on the event's type
ApplyEvent(b, event, now, m, defaults) ==
  Let(IF m.present THEN escapeMetricName(MappingWith(m, defaults).Name)
      ELSE escapeMetricName(event.metricName), LAMBDA metricName :
    Let(IF m.present THEN m.labels @@ event.labels ELSE event.labels,
        LAMBDA prometheusLabels :
      Let(IF m.present THEN b ELSE [b EXCEPT !.eventsUnmapped = @ + 1],
          LAMBDA b1 :
        CASE event.kind = "counter" ->
               HandleCounter(b1, event, metricName, prometheusLabels,
                             MappingWith(m, defaults).Ttl, now)
          [] event.kind = "gauge" ->
               HandleGauge(b1, event, metricName, prometheusLabels,
                           MappingWith(m, defaults).Ttl, now)
          [] event.kind = "timer" ->
               HandleTimer(b1, event, MappingWith(m, defaults), defaults,
                           metricName, prometheusLabels, now))))

\* handleEvent from the return of GetMapping on: m is what GetMapping
\* returned and defaults are the mapper's Defaults as handleEvent reads them
handleEventWith(b, event, now, m, defaults) ==
  IF MappingWith(m, defaults).Action = "drop" THEN b
  ELSE ApplyEvent(b, event, now, m, defaults)

\* handleEvent without the return on the action drop
handleEventNoDrop(b, event, now) ==
  Let(GetMapping(event.metricName, event.kind), LAMBDA m :
    ApplyEvent(b, event, now, m, Defaults))

\* handleEvent on the Exporter state b = [Counters, Gauges, Summaries,
\* Histograms, registered, labelValues, eventStats, conflictingEventStats,
\* eventsUnmapped] at time now, with no reload of the mapper under way
handleEvent(b, event, now) ==
  Let(GetMapping(event.metricName, event.kind), LAMBDA m :
    handleEventWith(b, event, now, m, Defaults))

\* A record evicted at the very second its TTL ends
StaleEarly(lvs, now) == lvs.ttl # 0 /\ lvs.lastRegisteredAt + lvs.ttl <= now

\* A record kept one second longer
StaleLate(lvs, now) == lvs.ttl # 0 /\ lvs.lastRegisteredAt + lvs.ttl + 1 < now

\* Whether removeStaleMetrics deletes a label-value record at time now
Stale(lvs, now) == lvs.ttl # 0 /\ lvs.lastRegisteredAt + lvs.ttl < now

\* The stale records of one metric name
StaleOf(labelValues, metricName, now) ==
  {h \in DOMAIN labelValues[metricName] : Stale(labelValues[metricName][h], now)}

\* Delete on every container that also lets go of a vector left with no
\* child
DeleteStaleUnregistering(Elements, labelValues, now) ==
  [n \in {n \in DOMAIN Elements :
            \/ n \notin DOMAIN labelValues
            \/ DOMAIN Elements[n].children
                 \ {labelValues[n][h].labels : h \in StaleOf(labelValues, n, now)}
                 # {}} |->
     IF n \in DOMAIN labelValues
       THEN [Elements[n] EXCEPT !.children =
               [l \in (DOMAIN @) \
                      {labelValues[n][h].labels : h \in StaleOf(labelValues, n, now)}
                  |-> @[l]]]
       ELSE Elements[n]]

\* XContainer.Delete(metricName, lvs.labels) for every stale record: the
\* child with those labels, if the container holds one, is removed
DeleteStale(Elements, labelValues, now) ==
  [n \in DOMAIN Elements |->
     IF n \in DOMAIN labelValues
       THEN [Elements[n] EXCEPT !.children =
               [l \in (DOMAIN @) \
                      {labelValues[n][h].labels : h \in StaleOf(labelValues, n, now)}
                  |-> @[l]]]
       ELSE Elements[n]]

\* removeStaleMetrics at time now
removeStaleMetrics(b, now) ==
  [b EXCEPT !.Counters = DeleteStale(@, b.labelValues, now),
            !.Gauges = DeleteStale(@, b.labelValues, now),
            !.Summaries = DeleteStale(@, b.labelValues, now),
            !.Histograms = DeleteStale(@, b.labelValues, now),
            !.labelValues =
               [n \in DOMAIN @ |->
                  [h \in (DOMAIN @[n]) \ StaleOf(b.labelValues, n, now) |-> @[n][h]]]]

-----------------------------------------------------------------------------
(* Inputs                                                                  *)

\* "a:1|c" and the like are written as sequences of bytes; J joins pieces.
RECURSIVE J(_, _)
J(pieces, sep) ==
  IF Len(pieces) = 0 THEN <<>>
  ELSE IF Len(pieces) = 1 THEN pieces[1]
  ELSE pieces[1] \o sep \o J(Tail(pieces), sep)

Bar == <<"|">>
Colon == <<":">>
NL == <<"\n">>

InValues == { <<"1">>, <<"3">>, <<"-", "5">>, <<"+", "2">>, <<"0", ".", "5">>,
              <<"z">>, <<>> }

InTypes == { <<"c">>, <<"g">>, <<"m", "s">>, <<"h">>, <<"s">>, <<"t">> }

InFactors == { <<"@", "1">>, <<"@", "0", ".", "5">>, <<"@", "0", ".", "1">>,
               <<"@", "0", ".", "3">>, <<"@", "0">>, <<"@", "2">>,
               <<"@", "-", "1">>, <<"@", "-", "0", ".", "3">>, <<"@", "z">>,
               <<"@">> }

InTags == { <<"#", "k", ":", "v">>, <<"#", ":", "v">>, <<"#", "k", ":">>,
            <<"#", "k">>, <<"#", "9", "k", ":", "v", ",", "j", ":", "w">>,
            <<"#", "k", ":", "v", ",", ":", "w">> }

InOther == { <<"z">>, <<>> }

InModifiers == InFactors \cup InTags \cup InOther

\* Samples: every value with every type; every type with every modifier;
\* counters and timers with two modifiers; too few and too many components.
InSamples ==
  {J(<<v, t>>, Bar) : v \in InValues, t \in InTypes}
  \cup {J(<<<<"3">>, t, m>>, Bar) : t \in InTypes, m \in InModifiers}
  \cup {J(<<v, t, m>>, Bar) :
          v \in {<<"-", "5">>, <<"0", ".", "5">>},
          t \in {<<"c">>, <<"m", "s">>}, m \in InFactors}
  \cup {J(<<<<"3">>, t, m1, m2>>, Bar) :
          t \in {<<"c">>, <<"m", "s">>},
          m1 \in {<<"@", "0", ".", "5">>, <<"#", "k", ":", "v">>, <<"z">>},
          m2 \in {<<"@", "0", ".", "1">>, <<"#", "j", ":", "w">>, <<"#", ":", "v">>}}
  \cup { <<"1">>, J(<<<<"1">>, <<"c">>, <<"@", "1">>, <<"@", "1">>, <<"@", "1">>>>, Bar) }

\* Samples that open a line of two samples
InFirstSamples ==
  { J(<<<<"1">>, <<"c">>>>, Bar), J(<<<<"z">>, <<"c">>>>, Bar),
    J(<<<<"1">>, <<"s">>>>, Bar), <<"1">>,
    J(<<<<"1">>, <<"g">>, <<"@", "0", ".", "5">>>>, Bar),
    J(<<<<"1">>, <<"c">>, <<"@", "z">>>>, Bar),
    J(<<<<"1">>, <<"m", "s">>, <<"@", "0", ".", "5">>>>, Bar),
    J(<<<<"1">>, <<"c">>, <<>>>>, Bar) }

InSecondSamples ==
  { J(<<<<"2">>, <<"g">>>>, Bar), J(<<<<"2">>, <<"t">>>>, Bar),
    J(<<<<"2">>, <<"c">>, <<"#", "k", ":", "v">>>>, Bar) }

\* Lines counted as malformed_line: no colon, no name, invalid UTF-8
InMalformedLines ==
  { <<"a">>, Colon \o J(<<<<"1">>, <<"c">>>>, Bar),
    <<"a", InvalidByte>> \o Colon \o J(<<<<"1">>, <<"c">>>>, Bar),
    <<"a">> \o Colon \o J(<<<<"1">>, <<"c">>, <<"#", "k", ":", InvalidByte>>>>, Bar) }

InLines ==
  {<<"a">> \o Colon \o smp : smp \in InSamples}
  \cup {<<"a">> \o Colon \o s1 \o Colon \o s2 :
          s1 \in InFirstSamples, s2 \in InSecondSamples}
  \cup InMalformedLines
  \cup { <<>> }

\* Lines around which a packet of several lines is built
InOuterLines ==
  { <<"a">> \o Colon \o J(<<<<"1">>, <<"c">>>>, Bar),
    <<"b">> \o Colon \o J(<<<<"2">>, <<"g">>>>, Bar) \o Colon
       \o J(<<<<"3">>, <<"m", "s">>, <<"@", "0", ".", "5">>>>, Bar),
    <<"b">> \o Colon \o J(<<<<"1">>, <<"c">>, <<"#", ":", "v">>>>, Bar) }

InInnerLines ==
  InMalformedLines
  \cup { <<>>,
         <<"a">> \o Colon \o J(<<<<"z">>, <<"c">>>>, Bar),
         <<"a">> \o Colon \o J(<<<<"4">>, <<"g">>, <<"@", "1">>>>, Bar) }

\* The datagrams of the parser's specification
ParserPackets ==
  InLines
  \cup {J(<<l1, l2>>, NL) : l1 \in InOuterLines, l2 \in InOuterLines}
  \cup {J(<<l1, m, l2>>, NL) :
          l1 \in InOuterLines, m \in InInnerLines, l2 \in InOuterLines}

\* The datagrams of the system's specification
SysPackets ==
  { J(<< <<"a">> \o Colon \o J(<<<<"1">>, <<"c">>, <<"#", "k", ":", "v">>>>, Bar),
         <<"a">> \o Colon \o J(<<<<"2">>, <<"c">>>>, Bar),
         <<"b">> \o Colon \o J(<<<<"1">>, <<"c">>>>, Bar) >>, NL),
    J(<< <<"t">> \o Colon \o J(<<<<"4">>, <<"h">>>>, Bar),
         <<"a">> \o Colon \o J(<<<<"+", "2">>, <<"g">>>>, Bar),
         <<"b">> \o Colon \o J(<<<<"3">>, <<"m", "s">>>>, Bar) >>, NL),
    J(<< <<"a">> \o Colon \o J(<<<<"1">>, <<"c">>>>, Bar) \o Colon
            \o J(<<<<"-", "5">>, <<"c">>>>, Bar),
         <<"z">> \o Colon \o J(<<<<"1">>, <<"g">>>>, Bar),
         <<"z">> \o Colon \o J(<<<<"-", "1">>, <<"c">>>>, Bar) \o Colon
            \o J(<<<<"2">>, <<"c">>>>, Bar) >>, NL),
    <<"b">> \o Colon \o J(<<<<"1">>, <<"c">>, <<"#", ":", "v">>>>, Bar) }

-----------------------------------------------------------------------------
(* The state                                                               *)

VARIABLES
  handlers,        \* datagrams read by Listener whose handlePacket is running
  datagrams,       \* number of datagrams read so far
  lastPacket,      \* the datagram the last finished handlePacket was given
  chan,            \* the events channel: the batches sent and not yet received
  crashed,         \* a goroutine panicked: the process is gone
  udpPackets, linesReceived, samplesReceived, tagsReceived, tagErrors,
  sampleErrors,    \* the parser's telemetry
  now,             \* clock.Now(), in seconds
  tickPending,     \* a tick waits in removeStaleMetricsTicker.C
  events, idx,     \* Listen: the batch being ranged over and the next index
  exporter,        \* the Exporter, the registry and the Exporter's telemetry
  lastSweep,       \* the time removeStaleMetrics last ran at (-1: never)
  scraped,         \* the series of the last scrape
  scrapedAt,       \* when it was taken (-1: never)
  rawName,         \* a name given to escapeMetricName
  escapes,         \* how many times escapeMetricName was applied to it
  escapedOnce,     \* escapeMetricName(rawName)
  escapedTwice,    \* escapeMetricName(escapedOnce)
  cache,           \* the mapper's LRU cache, the most recently used first
  cacheLength,     \* the gauge cacheLength
  trackers,        \* trackCacheLength goroutines started and not yet run
  lookups,         \* number of lookups made through the cache
  lookup,          \* the last lookup: key, hit, what Get returned, decision
  added,           \* per key, what was last added for it and at which lookup
  lastUsed,        \* per key, the lookup that last used it
  generation,      \* which of Configs the mapper holds
  configLoads,     \* the counter configLoads, by result
  pending,         \* handleEvent is past GetMapping: what it returned, and
                   \* from which generation
  labelsMap,       \* the labels map events[idx] shares with the event handled
                   \* before it: what it holds by now, and the label-value
                   \* records that hold the map itself
  conns,           \* TCP connections whose handleConn is running: what is
                   \* left to read, and whether handleConn has started
  accepted,        \* number of connections accepted so far
  tcpConnections, tcpErrors, tcpLineTooLong,  \* the TCP listener's telemetry
  goos,            \* runtime.GOOS
  mainAt,          \* where main is
  listening,       \* Exporter.Listen: "none" before main starts it,
                   \* "running", "returned"
  closed,          \* the events channel is closed
  lastCounts,      \* the counts the last poll of watchUDPBuffers read
  udpBufferQueued, udpBufferDropped   \* the poll's telemetry, by protocol

listenerVars == <<handlers, datagrams, lastPacket>>
parserStats == <<udpPackets, linesReceived, samplesReceived, tagsReceived,
                 tagErrors, sampleErrors>>
clockVars == <<now, tickPending>>
exporterVars == <<events, idx, exporter, lastSweep>>
scrapeVars == <<scraped, scrapedAt>>
sanitizerVars == <<rawName, escapes, escapedOnce, escapedTwice>>

cacheVars == <<cache, cacheLength, trackers, lookups, lookup, added, lastUsed>>

\* The variables the ingest pipeline leaves alone
reloadVars == <<generation, configLoads, pending, labelsMap>>
tcpVars == <<conns, accepted, tcpConnections, tcpErrors, tcpLineTooLong>>
mainVars == <<goos, mainAt, listening, closed, lastCounts, udpBufferQueued,
              udpBufferDropped>>
sideVars == <<sanitizerVars, cacheVars, reloadVars, tcpVars, mainVars>>

\* The variables of the ingest pipeline
pipelineVars == <<listenerVars, parserStats, chan, crashed, clockVars,
                  exporterVars, scrapeVars>>

vars == <<listenerVars, parserStats, chan, crashed, clockVars, exporterVars,
          scrapeVars, sideVars>>

\* Datagrams the UDP listener reads in a run
MaxDatagrams == 2

\* The clock stops here
MaxTime == 2

\* statsd.event-queue-size, set low enough for the channel to fill
eventQueueSize == 1

\* NewExporter, with the default registry and zeroed telemetry
NewExporter ==
  [Counters |-> NoElements, Gauges |-> NoElements, Summaries |-> NoElements,
   Histograms |-> NoElements, registered |-> {}, labelValues |-> NoElements,
   eventStats |-> NoElements, conflictingEventStats |-> NoElements,
   eventsUnmapped |-> 0]

InitRest ==
  /\ lastPacket = <<>>
  /\ chan = <<>>
  /\ crashed = FALSE
  /\ udpPackets = 0 /\ linesReceived = 0 /\ samplesReceived = 0
  /\ tagsReceived = 0 /\ tagErrors = 0
  /\ sampleErrors = NoElements
  /\ now = 0 /\ tickPending = FALSE
  /\ events = <<>> /\ idx = 1
  /\ exporter = NewExporter
  /\ lastSweep = -1
  /\ scraped = {} /\ scrapedAt = -1

\* No name is being escaped
SanitizerIdle ==
  rawName = <<>> /\ escapes = 0 /\ escapedOnce = <<>> /\ escapedTwice = <<>>

\* statsd.cache-size
CacheSize == 2

\* Lookups made in a run
MaxLookups == 4

NoLookup == [hit |-> FALSE]

\* NewMetricMapperCache(CacheSize): an empty cache, cacheLength set to 0
NewCache ==
  /\ cache = <<>> /\ cacheLength = 0 /\ trackers = 0
  /\ lookups = 0 /\ lookup = NoLookup
  /\ added = NoElements /\ lastUsed = NoElements

\* Reloads of the configuration in a run
MaxReloads == 2

NoPending == [called |-> FALSE]

\* events[idx] has a labels map of its own, as lineToEvents made it
OwnMap == [shared |-> FALSE]

\* The mapper holds the configuration it was started with, and handleEvent
\* is not running
FirstConfig ==
  /\ generation = 1
  /\ configLoads = [result \in {"success", "failure"} |-> 0]
  /\ pending = NoPending
  /\ labelsMap = OwnMap

\* TCP connections accepted in a run
MaxConnections == 1

\* No TCP connection yet
NoConnections ==
  /\ conns = <<>> /\ accepted = 0
  /\ tcpConnections = 0 /\ tcpErrors = 0 /\ tcpLineTooLong = 0

\* Polls of watchUDPBuffers the poll's telemetry counts up to
MaxPolls == 2

\* What watchUDPBuffers is first called with: watchUDPBuffers(0, 0, 0, 0)
NoCounts == [queued |-> 0, dropped |-> 0, queued6 |-> 0, dropped6 |-> 0]

NoPolls == [label \in {"udp", "udp6"} |-> 0]

\* main has started Exporter.Listen and waits for a signal; the poll of the
\* UDP buffers, if one was made, is over
Serving ==
  /\ goos = "other" /\ mainAt = "serving"
  /\ listening = "running" /\ closed = FALSE
  /\ lastCounts = NoCounts
  /\ udpBufferQueued = NoPolls /\ udpBufferDropped = NoPolls

Init ==
  /\ handlers = <<>> /\ datagrams = 0 /\ InitRest
  /\ SanitizerIdle /\ NewCache /\ FirstConfig /\ NoConnections /\ Serving

\* The parser's specification starts when Listener has read one datagram and
\* started handlePacket on it.
InitParser ==
  /\ \E p \in ParserPackets : handlers = <<p>>
  /\ datagrams = 1
  /\ InitRest
  /\ SanitizerIdle /\ NewCache /\ FirstConfig /\ NoConnections /\ Serving

-----------------------------------------------------------------------------
(* The listener                                                            *)

\* StatsDUDPListener.Listener: ReadFromUDP returns packet; go handlePacket
UDPRead(packet) ==
  /\ ~crashed
  /\ datagrams < MaxDatagrams
  /\ datagrams' = datagrams + 1
  /\ handlers' = Append(handlers, packet)
  /\ UNCHANGED <<lastPacket, parserStats, chan, crashed, clockVars,
                 exporterVars, scrapeVars, sideVars>>

RECURSIVE IncAll(_, _)
IncAll(stats, labels) ==
  IF labels = <<>> THEN stats ELSE IncAll(Inc(stats, Head(labels)), Tail(labels))

Without(seq, i) == SubSeq(seq, 1, i - 1) \o SubSeq(seq, i + 1, Len(seq))

\* handlePacket that hands the first event of its batch to handleEvent
\* itself and sends the rest
UDPHandlePacketApplying(i) ==
  \E r \in {handlePacket(handlers[i])} :
     /\ ~crashed
     /\ ~r.panic => Len(chan) < eventQueueSize
     /\ handlers' = Without(handlers, i)
     /\ lastPacket' = handlers[i]
     /\ udpPackets' = udpPackets + 1
     /\ linesReceived' = linesReceived + r.linesReceived
     /\ samplesReceived' = samplesReceived + r.samplesReceived
     /\ tagsReceived' = tagsReceived + r.tagsReceived
     /\ tagErrors' = tagErrors + r.tagErrors
     /\ sampleErrors' = IncAll(sampleErrors, r.errs)
     /\ crashed' = r.panic
     /\ chan' = IF r.panic THEN chan
                ELSE IF r.events = <<>> THEN Append(chan, r.events)
                ELSE Append(chan, Tail(r.events))
     /\ exporter' = IF r.panic \/ r.events = <<>> THEN exporter
                    ELSE handleEvent(exporter, Head(r.events), now)
     /\ UNCHANGED <<datagrams, clockVars, events, idx, lastSweep, scrapeVars,
                    sideVars>>

\* handlePacket that makes room in a full channel by dropping its oldest
\* batch
UDPHandlePacketDropOldest(i) ==
  \E r \in {handlePacket(handlers[i])} :
     /\ ~crashed
     /\ handlers' = Without(handlers, i)
     /\ lastPacket' = handlers[i]
     /\ udpPackets' = udpPackets + 1
     /\ linesReceived' = linesReceived + r.linesReceived
     /\ samplesReceived' = samplesReceived + r.samplesReceived
     /\ tagsReceived' = tagsReceived + r.tagsReceived
     /\ tagErrors' = tagErrors + r.tagErrors
     /\ sampleErrors' = IncAll(sampleErrors, r.errs)
     /\ crashed' = r.panic
     /\ chan' = IF r.panic THEN chan
                ELSE IF Len(chan) < eventQueueSize THEN Append(chan, r.events)
                ELSE Append(Tail(chan), r.events)
     /\ UNCHANGED <<datagrams, clockVars, exporterVars, scrapeVars, sideVars>>

\* StatsDUDPListener.handlePacket of the i-th running handler: it parses the
\* datagram and sends the batch, or panics and takes the process down.
UDPHandlePacket(i) ==
  \E r \in {handlePacket(handlers[i])} :
     /\ ~crashed
     /\ ~r.panic => Len(chan) < eventQueueSize
     /\ handlers' = Without(handlers, i)
     /\ lastPacket' = handlers[i]
     /\ udpPackets' = udpPackets + 1
     /\ linesReceived' = linesReceived + r.linesReceived
     /\ samplesReceived' = samplesReceived + r.samplesReceived
     /\ tagsReceived' = tagsReceived + r.tagsReceived
     /\ tagErrors' = tagErrors + r.tagErrors
     /\ sampleErrors' = IncAll(sampleErrors, r.errs)
     /\ crashed' = r.panic
     /\ chan' = IF r.panic THEN chan ELSE Append(chan, r.events)
     /\ UNCHANGED <<datagrams, clockVars, exporterVars, scrapeVars, sideVars>>

-----------------------------------------------------------------------------
(* Exporter.Listen                                                         *)

\* Listen is at its select
AtSelect == idx > Len(events)

\* A second passes; the ticker puts a tick in its channel (of capacity 1)
ClockTick ==
  /\ ~crashed
  /\ now < MaxTime
  /\ now' = now + 1
  /\ tickPending' = TRUE
  /\ UNCHANGED <<listenerVars, parserStats, chan, crashed, exporterVars,
                 scrapeVars, sideVars>>

\* case <-removeStaleMetricsTicker.C
ListenTick ==
  /\ ~crashed
  /\ AtSelect
  /\ tickPending
  /\ tickPending' = FALSE
  /\ exporter' = removeStaleMetrics(exporter, now)
  /\ lastSweep' = now
  /\ UNCHANGED <<listenerVars, parserStats, chan, crashed, now, events, idx,
                 scrapeVars, sideVars>>

\* case events, ok := <-e
ListenReceive ==
  /\ ~crashed
  /\ AtSelect
  /\ chan # <<>>
  /\ events' = Head(chan)
  /\ idx' = 1
  /\ chan' = Tail(chan)
  /\ UNCHANGED <<listenerVars, parserStats, crashed, clockVars, exporter,
                 lastSweep, scrapeVars, sideVars>>

\* The event the range loop hands to handleEvent
RangeEvent(batch, i) == batch[i]

\* for _, event := range events { b.handleEvent(event) }: one iteration
ListenHandle ==
  /\ ~crashed
  /\ ~AtSelect
  /\ exporter' = handleEvent(exporter, RangeEvent(events, idx), now)
  /\ idx' = idx + 1
  /\ UNCHANGED <<listenerVars, parserStats, chan, crashed, clockVars, events,
                 lastSweep, scrapeVars, sideVars>>

-----------------------------------------------------------------------------
(* The scrape                                                              *)

\* The series (kind, name, labels) the registry holds
SeriesOf(b) ==
  UNION {{[kind |-> f, name |-> n, labels |-> l] :
            l \in DOMAIN b[f][n].children} :
         <<f, n>> \in {<<f, n>> \in
            {"Counters", "Gauges", "Summaries", "Histograms"} \X b.registered :
            n \in DOMAIN b[f]}}

\* prometheus.Handler(): a scrape gathers the registry
Scrape ==
  /\ ~crashed
  /\ scraped' = SeriesOf(exporter)
  /\ scrapedAt' = now
  /\ UNCHANGED <<listenerVars, parserStats, chan, crashed, clockVars,
                 exporterVars, sideVars>>

-----------------------------------------------------------------------------
(* Specifications                                                          *)

Next ==
  \/ \E p \in SysPackets : UDPRead(p)
  \/ \E i \in 1..Len(handlers) : UDPHandlePacket(i)
  \/ ClockTick
  \/ ListenTick
  \/ ListenReceive
  \/ ListenHandle
  \/ Scrape

Spec == Init /\ [][Next]_vars

NextParser == \E i \in 1..Len(handlers) : UDPHandlePacket(i)

SpecParser == InitParser /\ [][NextParser]_vars

-----------------------------------------------------------------------------
(* escapeMetricName on its own                                             *)

\* Length of the names given to escapeMetricName
MaxNameLen == 3

\* A letter, a digit, the underscore, and three bytes the pattern replaces
NameBytes == {"a", "9", "_", "-", ".", InvalidByte}

RECURSIVE NamesOfLen(_)
NamesOfLen(n) ==
  IF n = 0 THEN {<<>>}
  ELSE {<<ch>> \o r : ch \in NameBytes, r \in NamesOfLen(n - 1)}

\* The non-empty names
Names == UNION {NamesOfLen(n) : n \in 1..MaxNameLen}

InitSanitizer ==
  /\ handlers = <<>> /\ datagrams = 0 /\ InitRest
  /\ rawName \in Names
  /\ escapes = 0 /\ escapedOnce = <<>> /\ escapedTwice = <<>>
  /\ NewCache /\ FirstConfig /\ NoConnections /\ Serving

\* escapeMetricName is applied to rawName, and then to its own result
Escape ==
  /\ escapes < 2
  /\ escapes' = escapes + 1
  /\ escapedOnce' = IF escapes = 0 THEN escapeMetricName(rawName)
                    ELSE escapedOnce
  /\ escapedTwice' = IF escapes = 1 THEN escapeMetricName(escapedOnce)
                     ELSE escapedTwice
  /\ UNCHANGED <<rawName, pipelineVars, cacheVars, reloadVars, tcpVars,
                 mainVars>>

NextSanitizer == Escape

SpecSanitizer == InitSanitizer /\ [][NextSanitizer]_vars

-----------------------------------------------------------------------------
(* The mapper cache on its own                                             *)

\* The metric names and type codes looked up
LookupNames == {<<"b">>, <<"t">>, <<"z">>}
LookupKinds == {"counter", "timer"}

\* GetMapping(metricName, kind) of a mapper with the LRU cache, next to the
\* same lookup of a mapper with the no-op cache. AddMatch and AddMiss start
\* the goroutine of trackCacheLength before they call m.cache.Add: it runs
\* later, or before the Add and reads the length the cache had
Lookup(metricName, kind) ==
  \E r \in {GetMappingCached("lru", cache, CacheSize, metricName, kind)} :
     /\ lookups < MaxLookups
     /\ lookups' = lookups + 1
     /\ cache' = r.cache
     /\ lookup' = [key |-> CacheKey(metricName, kind), hit |-> r.hit,
                    returned |-> IF r.hit THEN r.returned ELSE NoMapping,
                    m |-> r.m,
                    plain |-> GetMappingCached("noop", <<>>, 0,
                                               metricName, kind).m]
     /\ \/ /\ trackers' = IF r.hit THEN trackers ELSE trackers + 1
           /\ cacheLength' = cacheLength
        \/ /\ ~r.hit
           /\ trackers' = trackers
           /\ cacheLength' = Len(cache)
     /\ added' = IF r.hit THEN added
                 ELSE (CacheKey(metricName, kind) :>
                         [at |-> lookups + 1,
                          result |-> IF r.m.present
                                       THEN [Mapping |-> r.m.mapping,
                                             Matched |-> TRUE,
                                             Labels |-> r.m.labels]
                                       ELSE [Mapping |-> NoMapping,
                                             Matched |-> FALSE,
                                             Labels |-> EmptyLabels]])
                      @@ added
     /\ lastUsed' = (CacheKey(metricName, kind) :> lookups + 1) @@ lastUsed
     /\ UNCHANGED <<pipelineVars, sanitizerVars, reloadVars, tcpVars,
                    mainVars>>

\* trackCacheLength, in the goroutine AddMatch and AddMiss start
TrackCacheLength ==
  /\ trackers > 0
  /\ trackers' = trackers - 1
  /\ cacheLength' = Len(cache)
  /\ UNCHANGED <<cache, lookups, lookup, added, lastUsed, pipelineVars,
                 sanitizerVars, reloadVars, tcpVars, mainVars>>

NextCache ==
  \/ \E metricName \in LookupNames, kind \in LookupKinds :
        Lookup(metricName, kind)
  \/ TrackCacheLength

SpecCache == Init /\ [][NextCache]_vars

-----------------------------------------------------------------------------
(* The TCP listener, and the producers of the channel together             *)

TcpLine(line) == [kind |-> "line", line |-> line]

\* What a connection delivers: lines, a line that does not fit the reader's
\* buffer, an error of the read; the end of the sequence is io.EOF
TcpStreams ==
  { << TcpLine(<<"a">> \o Colon \o J(<<<<"1">>, <<"c">>>>, Bar)) >>,
    << [kind |-> "long"] >>,
    << [kind |-> "error"] >> }

\* The datagrams read beside the TCP connections
ProducerPackets ==
  { J(<< <<"a">> \o Colon \o J(<<<<"2">>, <<"c">>>>, Bar),
         <<"b">> \o Colon \o J(<<<<"3">>, <<"m", "s">>>>, Bar) >>, NL) }

\* StatsDTCPListener.Listen: AcceptTCP returns a connection; go handleConn.
\* No more than limit connections are accepted in a run.
TCPAcceptOf(stream, limit) ==
  /\ ~crashed
  /\ accepted < limit
  /\ accepted' = accepted + 1
  /\ conns' = Append(conns, [rest |-> stream, started |-> FALSE])
  /\ UNCHANGED <<pipelineVars, sanitizerVars, cacheVars, reloadVars, mainVars,
                 tcpConnections, tcpErrors, tcpLineTooLong>>

TCPAccept(stream) == TCPAcceptOf(stream, MaxConnections)

\* handleConn that ends the process at an error of the read, as Listener
\* does at an error of ReadFromUDP
TCPHandleConnFatal(i) ==
  /\ ~crashed
  /\ IF ~conns[i].started
       THEN /\ tcpConnections' = tcpConnections + 1
            /\ conns' = [conns EXCEPT ![i].started = TRUE]
            /\ UNCHANGED <<pipelineVars, tcpErrors, tcpLineTooLong>>
     ELSE IF conns[i].rest = <<>>
       THEN /\ conns' = Without(conns, i)
            /\ UNCHANGED <<pipelineVars, tcpConnections, tcpErrors,
                           tcpLineTooLong>>
     ELSE IF Head(conns[i].rest).kind = "error"
       THEN /\ tcpErrors' = tcpErrors + 1
            /\ conns' = Without(conns, i)
            /\ crashed' = TRUE
            /\ UNCHANGED <<listenerVars, parserStats, chan, clockVars,
                           exporterVars, scrapeVars, tcpConnections,
                           tcpLineTooLong>>
     ELSE IF Head(conns[i].rest).kind = "long"
       THEN /\ tcpLineTooLong' = tcpLineTooLong + 1
            /\ conns' = Without(conns, i)
            /\ UNCHANGED <<pipelineVars, tcpConnections, tcpErrors>>
     ELSE \E r \in {lineToEvents(Head(conns[i].rest).line)} :
            /\ ~r.panic => Len(chan) < eventQueueSize
            /\ conns' = [conns EXCEPT ![i].rest = Tail(@)]
            /\ linesReceived' = linesReceived + 1
            /\ samplesReceived' = samplesReceived + r.samplesReceived
            /\ tagsReceived' = tagsReceived + r.tagsReceived
            /\ tagErrors' = tagErrors + r.tagErrors
            /\ sampleErrors' = IncAll(sampleErrors, r.errs)
            /\ crashed' = r.panic
            /\ chan' = IF r.panic THEN chan ELSE Append(chan, r.events)
            /\ UNCHANGED <<listenerVars, udpPackets, clockVars, exporterVars,
                           scrapeVars, tcpConnections, tcpErrors,
                           tcpLineTooLong>>
  /\ UNCHANGED <<accepted, sanitizerVars, cacheVars, reloadVars, mainVars>>

\* handleConn that sends the events of each line from a goroutine of its
\* own: the lines read and not yet sent go out in any order
TCPHandleConnUnordered(i) ==
  /\ ~crashed
  /\ IF ~conns[i].started
       THEN /\ tcpConnections' = tcpConnections + 1
            /\ conns' = [conns EXCEPT ![i].started = TRUE]
            /\ UNCHANGED <<pipelineVars, tcpErrors, tcpLineTooLong>>
     ELSE IF conns[i].rest = <<>>
       THEN /\ conns' = Without(conns, i)
            /\ UNCHANGED <<pipelineVars, tcpConnections, tcpErrors,
                           tcpLineTooLong>>
     ELSE IF Head(conns[i].rest).kind = "error"
       THEN /\ tcpErrors' = tcpErrors + 1
            /\ conns' = Without(conns, i)
            /\ UNCHANGED <<pipelineVars, tcpConnections, tcpLineTooLong>>
     ELSE IF Head(conns[i].rest).kind = "long"
       THEN /\ tcpLineTooLong' = tcpLineTooLong + 1
            /\ conns' = Without(conns, i)
            /\ UNCHANGED <<pipelineVars, tcpConnections, tcpErrors>>
     ELSE \E k \in {k \in 1..Len(conns[i].rest) :
                      \A j \in 1..k : conns[i].rest[j].kind = "line"} :
          \E r \in {lineToEvents(conns[i].rest[k].line)} :
            /\ ~r.panic => Len(chan) < eventQueueSize
            /\ conns' = [conns EXCEPT ![i].rest = Without(@, k)]
            /\ linesReceived' = linesReceived + 1
            /\ samplesReceived' = samplesReceived + r.samplesReceived
            /\ tagsReceived' = tagsReceived + r.tagsReceived
            /\ tagErrors' = tagErrors + r.tagErrors
            /\ sampleErrors' = IncAll(sampleErrors, r.errs)
            /\ crashed' = r.panic
            /\ chan' = IF r.panic THEN chan ELSE Append(chan, r.events)
            /\ UNCHANGED <<listenerVars, udpPackets, clockVars, exporterVars,
                           scrapeVars, tcpConnections, tcpErrors,
                           tcpLineTooLong>>
  /\ UNCHANGED <<accepted, sanitizerVars, cacheVars, reloadVars, mainVars>>

\* StatsDTCPListener.handleConn of the i-th connection: its start, and then
\* one iteration of its loop, which ends at io.EOF, at an error of the read
\* and at a line too long, and otherwise sends the events of the line
TCPHandleConn(i) ==
  /\ ~crashed
  /\ IF ~conns[i].started
       THEN /\ tcpConnections' = tcpConnections + 1
            /\ conns' = [conns EXCEPT ![i].started = TRUE]
            /\ UNCHANGED <<pipelineVars, tcpErrors, tcpLineTooLong>>
     ELSE IF conns[i].rest = <<>>
       THEN /\ conns' = Without(conns, i)
            /\ UNCHANGED <<pipelineVars, tcpConnections, tcpErrors,
                           tcpLineTooLong>>
     ELSE IF Head(conns[i].rest).kind = "error"
       THEN /\ tcpErrors' = tcpErrors + 1
            /\ conns' = Without(conns, i)
            /\ UNCHANGED <<pipelineVars, tcpConnections, tcpLineTooLong>>
     ELSE IF Head(conns[i].rest).kind = "long"
       THEN /\ tcpLineTooLong' = tcpLineTooLong + 1
            /\ conns' = Without(conns, i)
            /\ UNCHANGED <<pipelineVars, tcpConnections, tcpErrors>>
     ELSE \E r \in {lineToEvents(Head(conns[i].rest).line)} :
            /\ ~r.panic => Len(chan) < eventQueueSize
            /\ conns' = [conns EXCEPT ![i].rest = Tail(@)]
            /\ linesReceived' = linesReceived + 1
            /\ samplesReceived' = samplesReceived + r.samplesReceived
            /\ tagsReceived' = tagsReceived + r.tagsReceived
            /\ tagErrors' = tagErrors + r.tagErrors
            /\ sampleErrors' = IncAll(sampleErrors, r.errs)
            /\ crashed' = r.panic
            /\ chan' = IF r.panic THEN chan ELSE Append(chan, r.events)
            /\ UNCHANGED <<listenerVars, udpPackets, clockVars, exporterVars,
                           scrapeVars, tcpConnections, tcpErrors,
                           tcpLineTooLong>>
  /\ UNCHANGED <<accepted, sanitizerVars, cacheVars, reloadVars, mainVars>>

NextProducers ==
  \/ \E p \in ProducerPackets : UDPRead(p)
  \/ \E i \in 1..Len(handlers) : UDPHandlePacket(i)
  \/ \E stream \in TcpStreams : TCPAccept(stream)
  \/ \E i \in 1..Len(conns) : TCPHandleConn(i)
  \/ ClockTick
  \/ ListenTick
  \/ ListenReceive
  \/ ListenHandle

SpecProducers == Init /\ [][NextProducers]_vars

\* TCP connections accepted in a run of SpecTcp
MaxTcpConnections == 2

\* What the connections of SpecTcp deliver: two settings of the gauge a and
\* then io.EOF; a line and then a line too long; a line and then an error
ConnStreams ==
  { << TcpLine(<<"a">> \o Colon \o J(<<<<"1">>, <<"g">>>>, Bar)),
       TcpLine(<<"a">> \o Colon \o J(<<<<"2">>, <<"g">>>>, Bar)) >>,
    << TcpLine(<<"b">> \o Colon \o J(<<<<"1">>, <<"c">>>>, Bar)),
       [kind |-> "long"] >>,
    << TcpLine(<<"b">> \o Colon \o J(<<<<"1">>, <<"c">>>>, Bar)),
       [kind |-> "error"] >> }

\* Connections handled side by side, beside the datagrams
NextTcp ==
  \/ \E p \in ProducerPackets : UDPRead(p)
  \/ \E i \in 1..Len(handlers) : UDPHandlePacket(i)
  \/ \E stream \in ConnStreams : TCPAcceptOf(stream, MaxTcpConnections)
  \/ \E i \in 1..Len(conns) : TCPHandleConn(i)
  \/ ListenReceive
  \/ ListenHandle

SpecTcp == Init /\ [][NextTcp]_vars

-----------------------------------------------------------------------------
(* main: the start of the process and its end                              *)

\* What parseProcfsNetFile reads in a poll
ProcfsCounts == [queued : 0..1, dropped : 0..1, queued6 : 0..1, dropped6 : 0..1]

\* One call of watchUDPBuffers(last...) that reads counts: whether it
\* returns (a count went down), and the increments it has made by then
watchUDPBuffers(last, counts) ==
  IF counts.queued < last.queued
    THEN [returns |-> TRUE, queued |-> {}, dropped |-> {}]
  ELSE IF counts.dropped < last.dropped
    THEN [returns |-> TRUE, queued |-> {"udp"}, dropped |-> {}]
  ELSE IF counts.queued6 < last.queued6
    THEN [returns |-> TRUE, queued |-> {"udp"}, dropped |-> {"udp"}]
  ELSE IF counts.dropped6 < last.dropped6
    THEN [returns |-> TRUE, queued |-> {"udp", "udp6"}, dropped |-> {"udp"}]
  ELSE [returns |-> FALSE, queued |-> {"udp", "udp6"},
        dropped |-> {"udp", "udp6"}]

\* Inc() of the gauges of the given labels, counted up to MaxPolls
IncPolls(gauge, labels) ==
  [label \in DOMAIN gauge |->
     IF label \in labels /\ gauge[label] < MaxPolls THEN gauge[label] + 1
     ELSE gauge[label]]

\* The process is there
Alive == ~crashed /\ mainAt \notin {"exited", "aborted"}

\* main on Linux: watchUDPBuffers(0, 0, 0, 0), called by main itself before
\* it makes the mapper and the Exporter; a poll that saw no count go down
\* goes to sleep
WatchUDPBuffers(counts) ==
  \E r \in {watchUDPBuffers(lastCounts, counts)} :
     /\ Alive
     /\ goos = "linux"
     /\ mainAt \in {"listeners", "polling"}
     /\ udpBufferQueued' = IncPolls(udpBufferQueued, r.queued)
     /\ udpBufferDropped' = IncPolls(udpBufferDropped, r.dropped)
     /\ mainAt' = IF r.returns THEN "mapper" ELSE "sleeping"
     /\ lastCounts' = IF r.returns THEN lastCounts ELSE counts
     /\ UNCHANGED <<pipelineVars, sanitizerVars, cacheVars, reloadVars, tcpVars,
                    goos, listening, closed>>

\* time.Sleep(10 * time.Second) is over: the next poll is called, with the
\* counts the last one read
PollAgain ==
  /\ Alive
  /\ mainAt = "sleeping"
  /\ mainAt' = "polling"
  /\ UNCHANGED <<pipelineVars, sanitizerVars, cacheVars, reloadVars, tcpVars,
                 goos, listening, closed, lastCounts, udpBufferQueued,
                 udpBufferDropped>>

\* main is at the making of the mapper
AtMapper ==
  \/ mainAt = "mapper"
  \/ mainAt = "listeners" /\ goos # "linux"

\* main: the mapper is made, NewExporter, go exporter.Listen(events)
MainStartExporter ==
  /\ Alive
  /\ AtMapper
  /\ mainAt' = "serving"
  /\ listening' = "running"
  /\ UNCHANGED <<pipelineVars, sanitizerVars, cacheVars, reloadVars, tcpVars,
                 goos, closed, lastCounts, udpBufferQueued, udpBufferDropped>>

\* main: the mapping configuration does not load, log.Fatal
MainAbort ==
  /\ Alive
  /\ AtMapper
  /\ mainAt' = "aborted"
  /\ UNCHANGED <<pipelineVars, sanitizerVars, cacheVars, reloadVars, tcpVars,
                 goos, listening, closed, lastCounts, udpBufferQueued,
                 udpBufferDropped>>

\* main: <-signals returns and main returns; the deferred close(events) runs
Signal ==
  /\ Alive
  /\ mainAt = "serving"
  /\ mainAt' = "returning"
  /\ closed' = TRUE
  /\ UNCHANGED <<pipelineVars, sanitizerVars, cacheVars, reloadVars, tcpVars,
                 goos, listening, lastCounts, udpBufferQueued, udpBufferDropped>>

\* main has returned: the process ends, whatever its goroutines are at
Exit ==
  /\ ~crashed
  /\ mainAt = "returning"
  /\ mainAt' = "exited"
  /\ UNCHANGED <<pipelineVars, sanitizerVars, cacheVars, reloadVars, tcpVars,
                 goos, listening, closed, lastCounts, udpBufferQueued,
                 udpBufferDropped>>

\* Listen: case events, ok := <-e with !ok, on the closed and empty channel:
\* the ticker is stopped and Listen returns
ListenReturn ==
  /\ Alive
  /\ listening = "running"
  /\ AtSelect
  /\ closed /\ chan = <<>>
  /\ listening' = "returned"
  /\ UNCHANGED <<pipelineVars, sanitizerVars, cacheVars, reloadVars, tcpVars,
                 goos, mainAt, closed, lastCounts, udpBufferQueued,
                 udpBufferDropped>>

\* handlePacket whose send finds the channel closed: a panic
SendOnClosed(i) ==
  \E r \in {handlePacket(handlers[i])} :
     /\ Alive
     /\ closed
     /\ handlers' = Without(handlers, i)
     /\ lastPacket' = handlers[i]
     /\ udpPackets' = udpPackets + 1
     /\ linesReceived' = linesReceived + r.linesReceived
     /\ samplesReceived' = samplesReceived + r.samplesReceived
     /\ tagsReceived' = tagsReceived + r.tagsReceived
     /\ tagErrors' = tagErrors + r.tagErrors
     /\ sampleErrors' = IncAll(sampleErrors, r.errs)
     /\ crashed' = TRUE
     /\ UNCHANGED <<datagrams, chan, clockVars, exporterVars, scrapeVars,
                    sideVars>>

\* The steps of main
MainStep ==
  \/ \E counts \in ProcfsCounts : WatchUDPBuffers(counts)
  \/ PollAgain
  \/ MainStartExporter
  \/ MainAbort
  \/ Exit

\* The steps of the listener and of the handlePacket goroutines
ProducerStep ==
  \/ Alive /\ \E p \in ProducerPackets : UDPRead(p)
  \/ Alive /\ ~closed /\ \E i \in 1..Len(handlers) : UDPHandlePacket(i)
  \/ \E i \in 1..Len(handlers) : SendOnClosed(i)

\* The steps of Exporter.Listen, once main has started it, and its ticker
ExporterStep ==
  \/ Alive /\ listening = "running" /\ ClockTick
  \/ Alive /\ listening = "running" /\ ListenTick
  \/ Alive /\ listening = "running" /\ ListenReceive
  \/ Alive /\ listening = "running" /\ ListenHandle
  \/ ListenReturn

NextMain ==
  \/ MainStep
  \/ Signal
  \/ ProducerStep
  \/ ExporterStep

\* main has started the listeners and is at runtime.GOOS == "linux"
InitMain ==
  /\ handlers = <<>> /\ datagrams = 0 /\ InitRest
  /\ SanitizerIdle /\ NewCache /\ FirstConfig /\ NoConnections
  /\ goos \in {"linux", "other"}
  /\ mainAt = "listeners"
  /\ listening = "none" /\ closed = FALSE
  /\ lastCounts = NoCounts
  /\ udpBufferQueued = NoPolls /\ udpBufferDropped = NoPolls

SpecMain == InitMain /\ [][NextMain]_vars

\* The scheduler runs every goroutine that can take a step; a signal comes
\* or does not
SpecMainFair ==
  /\ SpecMain
  /\ WF_vars(MainStep)
  /\ WF_vars(ProducerStep)
  /\ WF_vars(ExporterStep)

-----------------------------------------------------------------------------
(* handleEvent while watchConfig reloads the mapper                        *)

\* The datagrams read while the configuration file changes
ReloadPackets ==
  { <<"a">> \o Colon
      \o J(<<<<"3">>, <<"m", "s">>, <<"@", "0", ".", "5">>>>, Bar),
    J(<< <<"t">> \o Colon
           \o J(<<<<"4">>, <<"m", "s">>, <<"@", "0", ".", "5">>>>, Bar),
         <<"b">> \o Colon \o J(<<<<"3">>, <<"m", "s">>>>, Bar) >>, NL) }

\* lineToEvents makes one labels map for a sample and hands that map to every
\* event it builds from the sample: the events of a timer sampled at @f are
\* next to each other in the batch and alike
SharesMap(batch, i, j) ==
  /\ i \in 1..Len(batch)
  /\ j \in 1..Len(batch)
  /\ \A k \in 1..Len(batch) :
       ((i <= k /\ k <= j) \/ (j <= k /\ k <= i)) => batch[k] = batch[i]

\* event.Labels() of events[idx]: the map lineToEvents made, holding what the
\* events handled before it have written to it
EventWithMap(event, shared) ==
  IF shared.shared THEN [event EXCEPT !.labels = shared.labels] ELSE event

\* prometheusLabels := event.Labels() is that map and no copy of it, and
\* prometheusLabels[label] = value writes the labels of the rule to it (after
\* the return of the drop action it is not reached)
WrittenLabels(event, m, defaults) ==
  IF m.present /\ MappingWith(m, defaults).Action # "drop"
    THEN m.labels @@ event.labels
    ELSE event.labels

\* The keys of the label-value records
RecordKeys(labelValues) ==
  UNION { DOMAIN labelValues[n] : n \in DOMAIN labelValues }

\* saveLabelValues stores the map in the record it creates (labels: labels),
\* no copy of it: the records that hold the map read what it holds by now
ThroughMap(labelValues, keys, labels) ==
  [n \in DOMAIN labelValues |->
     [h \in DOMAIN labelValues[n] |->
        IF h \in keys THEN [labelValues[n][h] EXCEPT !.labels = labels]
        ELSE labelValues[n][h]]]

\* handleEvent: mapping, labels, present := b.mapper.GetMapping(...)
HandleGetMapping ==
  /\ ~crashed
  /\ ~AtSelect
  /\ ~pending.called
  /\ pending' = [called |-> TRUE, generation |-> generation,
                 m |-> GetMappingIn(Configs[generation].Rules,
                                    RangeEvent(events, idx).metricName,
                                    RangeEvent(events, idx).kind)]
  /\ UNCHANGED <<pipelineVars, sanitizerVars, cacheVars, tcpVars, mainVars,
                 generation, configLoads, labelsMap>>

\* The records that hold the labels map of the event: those that held it, and
\* the one saveLabelValues created for the event
HoldingMap(before, after, shared) ==
  (IF shared.shared THEN shared.records ELSE {})
    \cup (RecordKeys(after) \ RecordKeys(before))

\* handleEvent past GetMapping, of an event with its labels map, on the
\* Exporter b
handleEventThroughMap(b, event, t, m, defaults, shared) ==
  Let(handleEventWith(b, EventWithMap(event, shared), t, m, defaults),
      LAMBDA handled :
    [handled EXCEPT
       !.labelValues =
          ThroughMap(@, HoldingMap(b.labelValues, @, shared),
                     WrittenLabels(EventWithMap(event, shared), m,
                                   defaults))])

\* handleEvent from there to its end: it reads b.mapper.Defaults, of the
\* mapper as it is by then, and writes the labels of the rule to the labels
\* map of the event
HandleRest ==
  /\ ~crashed
  /\ pending.called
  /\ exporter' = handleEventThroughMap(exporter, RangeEvent(events, idx), now,
                                       pending.m,
                                       Configs[generation].Defaults,
                                       labelsMap)
  /\ labelsMap' =
       IF SharesMap(events, idx, idx + 1)
         THEN [shared |-> TRUE,
               labels |-> WrittenLabels(
                            EventWithMap(RangeEvent(events, idx), labelsMap),
                            pending.m, Configs[generation].Defaults),
               records |-> HoldingMap(exporter.labelValues,
                                      exporter'.labelValues, labelsMap)]
         ELSE OwnMap
  /\ idx' = idx + 1
  /\ pending' = NoPending
  /\ UNCHANGED <<listenerVars, parserStats, chan, crashed, clockVars, events,
                 lastSweep, scrapeVars, sanitizerVars, cacheVars, tcpVars,
                 mainVars, generation, configLoads>>

\* watchConfig: the file changed and mapper.InitFromFile loads it into the
\* mapper the Exporter holds, all of it at once
Reload ==
  /\ ~crashed
  /\ configLoads["success"] + configLoads["failure"] < MaxReloads
  /\ generation' = 3 - generation
  /\ configLoads' = [configLoads EXCEPT !["success"] = @ + 1]
  /\ UNCHANGED <<pipelineVars, sanitizerVars, cacheVars, tcpVars, mainVars,
                 pending, labelsMap>>

\* watchConfig: the file changed and does not load; the mapper stays
ReloadFails ==
  /\ ~crashed
  /\ configLoads["success"] + configLoads["failure"] < MaxReloads
  /\ configLoads' = [configLoads EXCEPT !["failure"] = @ + 1]
  /\ UNCHANGED <<pipelineVars, sanitizerVars, cacheVars, tcpVars, mainVars,
                 generation, pending, labelsMap>>

NextReload ==
  \/ \E p \in ReloadPackets : UDPRead(p)
  \/ \E i \in 1..Len(handlers) : UDPHandlePacket(i)
  \/ ListenReceive
  \/ HandleGetMapping
  \/ HandleRest
  \/ Reload
  \/ ReloadFails

SpecReload == Init /\ [][NextReload]_vars

\* Reloads that load, with the clock and the eviction tick
NextReloadTtl ==
  \/ \E p \in ReloadPackets : UDPRead(p)
  \/ \E i \in 1..Len(handlers) : UDPHandlePacket(i)
  \/ ClockTick
  \/ ListenTick
  \/ ListenReceive
  \/ HandleGetMapping
  \/ HandleRest
  \/ Reload

SpecReloadTtl == Init /\ [][NextReloadTtl]_vars

\* The same with the scrape
NextReloadScrape ==
  \/ \E p \in ReloadPackets : UDPRead(p)
  \/ \E i \in 1..Len(handlers) : UDPHandlePacket(i)
  \/ ClockTick
  \/ ListenTick
  \/ ListenReceive
  \/ HandleGetMapping
  \/ HandleRest
  \/ Reload
  \/ Scrape

SpecReloadScrape == Init /\ [][NextReloadScrape]_vars

-----------------------------------------------------------------------------
(* The families of the registry under gauges, tags, conflicts and TTLs      *)

\* The datagrams read: gauges set and moved, a gauge under the TTL of the
\* rule for b, a tagged timer the rule for t gives a label to, and counters
\* for names the gauges use
FamilyPackets ==
  { J(<< <<"a">> \o Colon \o J(<<<<"5">>, <<"g">>>>, Bar),
         <<"a">> \o Colon \o J(<<<<"-", "5">>, <<"g">>>>, Bar),
         <<"b">> \o Colon \o J(<<<<"+", "2">>, <<"g">>>>, Bar) >>, NL),
    <<"t">> \o Colon
       \o J(<<<<"4">>, <<"m", "s">>,
              <<"#", "j", ":", "x", ",", "k", ":", "v">>>>, Bar),
    J(<< <<"a">> \o Colon \o J(<<<<"1">>, <<"c">>, <<"#", "k", ":", "v">>>>, Bar),
         <<"b">> \o Colon \o J(<<<<"1">>, <<"c">>>>, Bar) >>, NL) }

NextFamilies ==
  \/ \E p \in FamilyPackets : UDPRead(p)
  \/ \E i \in 1..Len(handlers) : UDPHandlePacket(i)
  \/ ClockTick
  \/ ListenTick
  \/ ListenReceive
  \/ ListenHandle

SpecFamilies == Init /\ [][NextFamilies]_vars

-----------------------------------------------------------------------------
(* Properties of the parser, checked under SpecParser                      *)

\* handlePacket has run on lastPacket
Handled == udpPackets > 0

\* The batch handlePacket sent for lastPacket (SpecParser has no receiver)
Batch == chan[1]

RECURSIVE Flatten(_)
Flatten(seqs) == IF seqs = <<>> THEN <<>> ELSE Head(seqs) \o Flatten(Tail(seqs))

LinesOf(packet) == Split(packet, "\n")

\* C1: the parser never fails the call: no line, a tag with an empty name
\* and a value included, makes lineToEvents abort (escapeMetricName is never
\* reached with the empty string).
C1_ParserNeverFails == ~crashed

\* A malformed line: not empty, and without a colon, without a name before
\* the colon, or not valid UTF-8
MalformedLine(line) ==
  /\ line # <<>>
  /\ \/ \A k \in 1..Len(line) : line[k] # ":"
     \/ line[1] = ":"
     \/ ~ValidString(line)

\* The lines of a packet without its k-th
PacketWithout(packet, k) == J(Without(LinesOf(packet), k), NL)

\* The lines strictly between the first and the last that are malformed
MalformedBetween(packet) ==
  {k \in 2..(Len(LinesOf(packet)) - 1) : MalformedLine(LinesOf(packet)[k])}

\* C2: a malformed line between two lines of a packet does not change the
\* batch: the packet is handled as the packet without that line is (the
\* same events in the same order; a packet that takes the process down
\* does so with or without the line).
C2_MalformedLineIsolated ==
  Handled =>
    \A k \in MalformedBetween(lastPacket) :
      LET q == handlePacket(PacketWithout(lastPacket, k))
      IN /\ crashed <=> q.panic
         /\ ~crashed => Batch = q.events

\* A batch with events of the lines around a malformed line has been sent
C2_Witness ==
  /\ Handled /\ ~crashed
  /\ MalformedBetween(lastPacket) # {}
  /\ Len(Batch) >= 2
  /\ Batch[1].metricName # Batch[Len(Batch)].metricName

\* C3 as stated: a packet any part of which is not valid UTF-8 yields no
\* event and counts malformed_line.
C3_WholePacketRejected ==
  (Handled /\ ~crashed /\ ~ValidString(lastPacket)) =>
     /\ Batch = <<>>
     /\ Count(sampleErrors, "malformed_line") >= 1

InvalidLines(packet) ==
  {k \in 1..Len(LinesOf(packet)) : ~ValidString(LinesOf(packet)[k])}

\* The events of the lines of a packet that are valid UTF-8, in order
EventsOfValidLines(packet) ==
  Flatten([k \in 1..Len(LinesOf(packet)) |->
             IF k \in InvalidLines(packet) THEN <<>>
             ELSE lineToEvents(LinesOf(packet)[k]).events])

\* C3 (amended): UTF-8 validity is required line by line: a line that is not
\* valid UTF-8 adds no event to the packet's batch and counts malformed_line
\* once; the other lines of the packet are parsed as usual.
C3_InvalidLineRejected ==
  (Handled /\ ~crashed) =>
     /\ Batch = EventsOfValidLines(lastPacket)
     /\ Count(sampleErrors, "malformed_line")
          >= Cardinality(InvalidLines(lastPacket))

\* A packet with a line that is not valid UTF-8 whose batch is not empty
C3_Witness ==
  /\ Handled /\ ~crashed
  /\ InvalidLines(lastPacket) # {}
  /\ Batch # <<>>
  /\ Count(sampleErrors, "malformed_line") = 1

\* The samples of the lines of a packet that lineToEvents takes apart, with
\* the name of their line
SamplesOfLine(line) ==
  IF line = <<>> \/ MalformedLine(line) THEN <<>>
  ELSE LET elements == SplitN2(line, ":")
       IN [k \in 1..Len(SamplesOf(elements[2])) |->
             [metric |-> elements[1], sample |-> SamplesOf(elements[2])[k]]]

SamplesOfPacket(packet) ==
  Flatten([k \in 1..Len(LinesOf(packet)) |-> SamplesOfLine(LinesOf(packet)[k])])

SampleReasons ==
  {"malformed_component", "malformed_value", "illegal_sample_factor",
   "invalid_sample_factor", "illegal_event"}

SkippingReasons == {"malformed_component", "malformed_value", "illegal_event"}

Reasons(errs) == {errs[k] : k \in 1..Len(errs)}

\* The batch when a sample with an error of one of the reasons emits nothing
BatchSkipping(packet, reasons) ==
  Flatten([k \in 1..Len(SamplesOfPacket(packet)) |->
     LET r == sampleToEvents(SamplesOfPacket(packet)[k].sample,
                             SamplesOfPacket(packet)[k].metric)
     IN IF Reasons(r.errs) \cap reasons # {} THEN <<>> ELSE r.events])

OnlySample(packet) == Split(SamplesOfPacket(packet)[1].sample, "|")

Factors(components) ==
  {k \in 3..Len(components) : HasPrefixByte(components[k], "@")}

TagSections(components) ==
  {k \in 3..Len(components) : HasPrefixByte(components[k], "#")}

\* The sampling factor of a sample with one
FactorOf(components) ==
  ParseFloat(Drop(components[CHOOSE k \in Factors(components) : TRUE], 1))

\* lastPacket is one sample X|type|@f, with tag sections if tagged, X and f
\* decimal numbers
FactorSample(type, tagged) ==
  /\ Len(SamplesOfPacket(lastPacket)) = 1
  /\ LET components == OnlySample(lastPacket)
     IN /\ Len(components) \in 3..4
        /\ components[2] = type
        /\ ~ParseFloat(components[1]).err
        /\ Cardinality(Factors(components)) = 1
        /\ ~FactorOf(components).err
        /\ Factors(components) \cup TagSections(components) = 3..Len(components)
        /\ tagged \/ TagSections(components) = {}

\* floor(1/f), no event for a negative count, and a factor of 0 taken as 1
Repetitions(f) ==
  IF f = Zero THEN 1 ELSE IF f[1] < 0 THEN 0 ELSE f[2] \div f[1]

\* C6: a timer sample X|ms|@f yields exactly floor(1/f) events (none when
\* that is negative), each a timer event of value X, all with the same
\* labels (none without a tag section); a factor of 0 counts as 1.
C6_TimerRepeated ==
  /\ (Handled /\ FactorSample(<<"m", "s">>, FALSE)) =>
       /\ ~crashed
       /\ Len(Batch) = Repetitions(FactorOf(OnlySample(lastPacket)).val)
       /\ \A k \in 1..Len(Batch) :
            Batch[k] = TimerEvent(SamplesOfPacket(lastPacket)[1].metric,
                                  ParseFloat(OnlySample(lastPacket)[1]).val,
                                  EmptyLabels)
  /\ (Handled /\ ~crashed /\ FactorSample(<<"m", "s">>, TRUE)) =>
       /\ Len(Batch) = Repetitions(FactorOf(OnlySample(lastPacket)).val)
       /\ \A k \in 1..Len(Batch) :
            /\ Batch[k].kind = "timer"
            /\ Batch[k].value = ParseFloat(OnlySample(lastPacket)[1]).val
            /\ Batch[k].labels = Batch[1].labels

\* 3|ms|@0.3 has been handled: three events
C6_Witness ==
  /\ Handled /\ ~crashed
  /\ FactorSample(<<"m", "s">>, FALSE)
  /\ FactorOf(OnlySample(lastPacket)).val = Rat(3, 10)
  /\ Len(Batch) = 3

\* x = y * z
IsProduct(x, y, z) == x[1] * y[2] * z[2] = y[1] * z[1] * x[2]

\* C7: a counter sample X|c|@f with one sampling factor f in (0, 1] yields
\* exactly one event, a counter event whose value is X / f.
C7_CounterScaled ==
  (/\ Handled
   /\ FactorSample(<<"c">>, FALSE)
   /\ Len(OnlySample(lastPacket)) = 3
   /\ RatLess(Zero, FactorOf(OnlySample(lastPacket)).val)
   /\ ~RatLess(One, FactorOf(OnlySample(lastPacket)).val)) =>
     /\ ~crashed
     /\ Len(Batch) = 1
     /\ Batch[1].kind = "counter"
     /\ Batch[1].metricName = SamplesOfPacket(lastPacket)[1].metric
     /\ Batch[1].labels = EmptyLabels
     /\ IsProduct(ParseFloat(OnlySample(lastPacket)[1]).val, Batch[1].value,
                  FactorOf(OnlySample(lastPacket)).val)

\* 3|c|@0.3 has been handled
C7_Witness ==
  /\ Handled /\ ~crashed
  /\ FactorSample(<<"c">>, FALSE)
  /\ FactorOf(OnlySample(lastPacket)).val = Rat(3, 10)
  /\ Batch[1].value = Rat(10, 1)

-----------------------------------------------------------------------------
(* Properties of the system, checked under Spec                            *)

\* The events of a packet in the order of its lines and of the samples
\* within each line
EventsInOrder(packet) ==
  Flatten([k \in 1..Len(SamplesOfPacket(packet)) |->
             sampleToEvents(SamplesOfPacket(packet)[k].sample,
                            SamplesOfPacket(packet)[k].metric).events])

\* The step in which the i-th running handlePacket finishes
Finishes(i) == handlers' = Without(handlers, i) /\ udpPackets' = udpPackets + 1

\* The step in which Listen hands events[idx] to handleEvent
Handling == ~AtSelect /\ idx' = idx + 1

\* handlePacket of handlers[i] sends the events of its datagram as one batch
BatchSent(i) == chan' = Append(chan, EventsInOrder(handlers[i]))

\* Listen takes a batch whole, and the Exporter changes during a batch only
\* by handleEvent of events[idx], idx going up by one
AppliedInOrder ==
  /\ (chan # <<>> /\ chan' = Tail(chan)) =>
       (AtSelect /\ events' = Head(chan) /\ idx' = 1)
  /\ exporter' # exporter =>
       \/ AtSelect /\ events' = events /\ idx' = idx
       \/ /\ Handling /\ events' = events
          /\ exporter' = handleEvent(exporter, events[idx], now)

\* C5: handlePacket sends exactly one batch per datagram, its events in the
\* order of the datagram's lines and of the samples within each line, and
\* the Exporter applies the events of a batch from the first to the last.
C5_DatagramOrderKept ==
  [][/\ \A i \in 1..Len(handlers) : Finishes(i) => BatchSent(i)
     /\ AppliedInOrder]_vars

\* C5 for the datagrams handlePacket does not panic on: one batch each, in
\* the order of the lines and samples, applied in that order.
C5_OrderKeptWithoutPanic ==
  [][/\ \A i \in 1..Len(handlers) : (Finishes(i) /\ ~crashed') => BatchSent(i)
     /\ AppliedInOrder]_vars

\* The metric families, the registry and the label-value records
Families(b) ==
  <<b.Counters, b.Gauges, b.Summaries, b.Histograms, b.registered, b.labelValues>>

NegativeCounter(e) == e.kind = "counter" /\ RatLess(e.value, Zero)

\* The mapping of e has the action drop
Dropped(e) == MappingOf(GetMapping(e.metricName, e.kind)).Action = "drop"

NegativeCounted(b, c) ==
  /\ Families(c) = Families(b)
  /\ c.eventStats = Inc(b.eventStats, "illegal_negative_counter")
  /\ c.conflictingEventStats = b.conflictingEventStats

\* C8 as stated: handling any counter event of negative value changes no
\* metric family and no label-value record, and increments
\* illegal_negative_counter exactly once.
C8_NegativeCounterRejected ==
  [][(Handling /\ NegativeCounter(events[idx])) =>
       NegativeCounted(exporter, exporter')]_vars

\* C8 (amended): handling a counter event of negative value changes no
\* metric family and no label-value record; it increments
\* illegal_negative_counter exactly once (and counts no conflict) unless the
\* event's mapping has the action drop, and then it changes nothing at all.
C8_NegativeCounterRejectedUnlessDropped ==
  [][(Handling /\ NegativeCounter(events[idx])) =>
       IF Dropped(events[idx]) THEN exporter' = exporter
       ELSE NegativeCounted(exporter, exporter')]_vars

\* "a:1|c:-5|c" has been handled: the counter a stands at 1
C8_Witness ==
  /\ Count(exporter.eventStats, "illegal_negative_counter") = 1
  /\ <<"a">> \in DOMAIN exporter.Counters
  /\ EmptyLabels \in DOMAIN exporter.Counters[<<"a">>].children
  /\ exporter.Counters[<<"a">>].children[EmptyLabels] = One

\* The name, the labels and the container handleEvent works with for e
TargetName(e) ==
  IF GetMapping(e.metricName, e.kind).present
    THEN escapeMetricName(GetMapping(e.metricName, e.kind).mapping.Name)
    ELSE escapeMetricName(e.metricName)

TargetLabels(e) ==
  IF GetMapping(e.metricName, e.kind).present
    THEN GetMapping(e.metricName, e.kind).labels @@ e.labels
    ELSE e.labels

TargetFamily(e) ==
  CASE e.kind = "counter" -> "Counters"
    [] e.kind = "gauge" -> "Gauges"
    [] e.kind = "timer" -> TimerField(MappingOf(GetMapping(e.metricName, e.kind)))

\* The name of e is registered with another family type or with other label
\* names
Conflicts(b, e) ==
  /\ TargetName(e) \in b.registered
  /\ \/ TargetName(e) \notin DOMAIN b[TargetFamily(e)]
     \/ b[TargetFamily(e)][TargetName(e)].labelNames # DOMAIN TargetLabels(e)

ConflictCounted(b, c, e) ==
  /\ Families(c) = Families(b)
  /\ c.conflictingEventStats = Inc(b.conflictingEventStats, e.kind)
  /\ c.eventStats = b.eventStats

\* C9 as stated: handling any event whose name is registered with another
\* family type or other label names leaves the families and the label-value
\* records as they are, counts one conflict for the event's type and does
\* not increment eventStats.
C9_ConflictIsolated ==
  [][(Handling /\ Conflicts(exporter, events[idx])) =>
       ConflictCounted(exporter, exporter', events[idx])]_vars

\* C9 under one ruleset: the same, for every event that handleEvent takes as
\* far as the registration: an event whose mapping has the action drop changes
\* nothing, and a counter event of negative value counts
\* illegal_negative_counter in eventStats and no conflict.
C9_ConflictIsolatedWhenRegistering ==
  [][(Handling /\ Conflicts(exporter, events[idx])) =>
       IF Dropped(events[idx]) THEN exporter' = exporter
       ELSE IF NegativeCounter(events[idx])
         THEN NegativeCounted(exporter, exporter')
       ELSE ConflictCounted(exporter, exporter', events[idx])]_vars

\* A timer event found its name registered as a counter, and a counter event
\* found the counter a with other label names
C9_Witness ==
  /\ Count(exporter.conflictingEventStats, "timer") = 1
  /\ Str_m \in DOMAIN exporter.Counters /\ Str_m \notin DOMAIN exporter.Summaries
  /\ Count(exporter.conflictingEventStats, "counter") = 1
  /\ <<"a">> \in DOMAIN exporter.Counters
  /\ exporter.Counters[<<"a">>].labelNames = {<<"k">>}

\* The label-value record of a series
RecordOf(b, s) == b.labelValues[s.name][hashNameAndLabels(s.name, s.labels)]

HasRecord(b, s) ==
  /\ s.name \in DOMAIN b.labelValues
  /\ hashNameAndLabels(s.name, s.labels) \in DOMAIN b.labelValues[s.name]

\* The step of a scrape
Scraping == scraped' = SeriesOf(exporter) /\ scrapedAt' = now

\* C10 as stated: a series last observed at t0 under a TTL T > 0 is in no
\* scrape taken at t0 + T + 1s or later, whatever the interleaving.
C10_AbsentAfterTtl ==
  [][Scraping =>
       \A s \in scraped' :
          (HasRecord(exporter, s) /\ RecordOf(exporter, s).ttl > 0) =>
             now < RecordOf(exporter, s).lastRegisteredAt
                     + RecordOf(exporter, s).ttl + 1]_vars

\* C10, counted from the run of removeStaleMetrics: a series last observed
\* at t0 under a TTL T > 0 is in no scrape taken after the Exporter ran
\* removeStaleMetrics at a time later than t0 + T: every series of a scrape
\* has its label-value record, and with a TTL its t0 + T is not before the
\* last run.
C10_AbsentAfterSweep ==
  [][Scraping =>
       \A s \in scraped' :
          /\ HasRecord(exporter, s)
          /\ RecordOf(exporter, s).ttl > 0 =>
               RecordOf(exporter, s).lastRegisteredAt
                 + RecordOf(exporter, s).ttl >= lastSweep]_vars

\* The counter m was observed and then evicted by the run of
\* removeStaleMetrics at lastSweep, and the scrape taken after that run has
\* other series and not m
C10_Witness ==
  /\ Str_m \in DOMAIN exporter.Counters
  /\ DOMAIN exporter.Counters[Str_m].children = {}
  /\ lastSweep > RuleTtl /\ scrapedAt >= lastSweep
  /\ scraped # {}
  /\ \A s \in scraped : s.name # Str_m

FamilyNames == {"Counters", "Gauges", "Summaries", "Histograms"}

\* The step in which Listen runs removeStaleMetrics
Sweeping == AtSelect /\ tickPending /\ ~tickPending'

\* The step in which handleEvent observes events[idx] with success
Observing ==
  /\ Handling
  /\ Count(exporter'.eventStats, events[idx].kind)
       = Count(exporter.eventStats, events[idx].kind) + 1

\* The TTL of the mapping of e, the default TTL when e is unmapped
TtlOf(e) ==
  IF GetMapping(e.metricName, e.kind).present
    THEN GetMapping(e.metricName, e.kind).mapping.Ttl
    ELSE Defaults.Ttl

\* The record lvs of the name n with the hash h, and the children with its
\* labels, are in c as they are in b
Retained(b, c, n, h) ==
  /\ n \in DOMAIN c.labelValues
  /\ h \in DOMAIN c.labelValues[n]
  /\ c.labelValues[n][h] = b.labelValues[n][h]
  /\ \A f \in FamilyNames :
       (n \in DOMAIN b[f]
          /\ b.labelValues[n][h].labels \in DOMAIN b[f][n].children) =>
         /\ n \in DOMAIN c[f]
         /\ b.labelValues[n][h].labels \in DOMAIN c[f][n].children
         /\ c[f][n].children[b.labelValues[n][h].labels]
              = b[f][n].children[b.labelValues[n][h].labels]

\* C11 under one ruleset: removeStaleMetrics deletes no child and no
\* label-value record whose TTL is zero or whose last update plus TTL is
\* not before now, and every
\* successful observation sets the record's last update to now and its TTL
\* to the TTL of the event's mapping, the default TTL when unmapped.
C11_NoPrematureEviction ==
  [][/\ Sweeping =>
          \A n \in DOMAIN exporter.labelValues :
             \A h \in DOMAIN exporter.labelValues[n] :
                (\/ exporter.labelValues[n][h].ttl = 0
                 \/ exporter.labelValues[n][h].lastRegisteredAt
                      + exporter.labelValues[n][h].ttl >= now) =>
                   Retained(exporter, exporter', n, h)
     /\ Observing =>
          /\ HasRecord(exporter', [name |-> TargetName(events[idx]),
                                   labels |-> TargetLabels(events[idx])])
          /\ RecordOf(exporter', [name |-> TargetName(events[idx]),
                                  labels |-> TargetLabels(events[idx])])
               .lastRegisteredAt = now
          /\ RecordOf(exporter', [name |-> TargetName(events[idx]),
                                  labels |-> TargetLabels(events[idx])])
               .ttl = TtlOf(events[idx])]_vars

\* removeStaleMetrics ran one second after "t:4|h", "a:+2|g" and "b:3|ms"
\* were observed: the histogram t (TTL zero), the gauge a (default TTL) and
\* the summary m (its TTL ending at that second) are all kept
C11_Witness ==
  /\ lastSweep = RuleTtl
  /\ \A s \in { [f |-> "Histograms", name |-> Str_t,
                  labels |-> (<<"j">> :> <<"w">>), ttl |-> 0],
                 [f |-> "Gauges", name |-> <<"a">>, labels |-> EmptyLabels,
                  ttl |-> Defaults.Ttl],
                 [f |-> "Summaries", name |-> Str_m, labels |-> EmptyLabels,
                  ttl |-> RuleTtl] } :
       /\ HasRecord(exporter, s)
       /\ RecordOf(exporter, s).ttl = s.ttl
       /\ RecordOf(exporter, s).lastRegisteredAt = 0
       /\ s.name \in DOMAIN exporter[s.f]
       /\ s.labels \in DOMAIN exporter[s.f][s.name].children

\* C20: handling an event whose mapping has the action drop leaves the whole
\* Exporter unchanged: no family, child or label-value record is created or
\* refreshed and no statistic of the Exporter counts.
C20_DropChangesNothing ==
  [][(Handling /\ Dropped(events[idx])) => exporter' = exporter]_vars

\* The dropped counter event "z:-1|c" has just been handled while the gauge
\* z, observed before it, stands with its record
C20_Witness ==
  /\ idx > 1 /\ idx - 1 <= Len(events)
  /\ Dropped(events[idx - 1])
  /\ Str_z \in DOMAIN exporter.Gauges
  /\ HasRecord(exporter, [name |-> Str_z, labels |-> EmptyLabels])
  /\ Count(exporter.eventStats, "counter") = 1

-----------------------------------------------------------------------------
(* Properties of escapeMetricName, checked under SpecSanitizer             *)

\* C18: escapeMetricName(escapeMetricName(n)) = escapeMetricName(n) for
\* every non-empty name n: a sanitized name is a fixed point.
C18_EscapeIdempotent ==
  escapes = 2 => escapedTwice = escapedOnce

\* A name that starts with a digit and holds a byte the pattern replaces was
\* escaped twice
C18_Witness ==
  /\ escapes = 2
  /\ rawName[1] \in Digits
  /\ \E i \in 1..Len(rawName) : rawName[i] \notin LegalChars
  /\ escapedOnce # rawName

-----------------------------------------------------------------------------
(* Properties of the mapper cache, checked under SpecCache                 *)

\* C16: on a fixed ruleset the decision of every lookup through the LRU
\* cache equals the decision of the same lookup through the no-op cache,
\* and a Get that hits returns the mapping, the labels and the matched flag
\* last added for its key.
C16_CacheTransparent ==
  lookups > 0 =>
    /\ lookup.m = lookup.plain
    /\ lookup.hit => lookup.returned = added[lookup.key].result

\* The timer t, matched with the label j, was looked up again and found in
\* the cache
C16_Witness ==
  /\ lookup.hit
  /\ lookup.key = CacheKey(Str_t, "timer")
  /\ lookup.m.present /\ lookup.m.labels # EmptyLabels

KeysOf(c) == {c[i].key : i \in 1..Len(c)}

\* The key of c used the longest ago
LeastRecentlyUsed(c, used) ==
  CHOOSE k \in KeysOf(c) : \A j \in KeysOf(c) : used[k] <= used[j]

\* C17: a cache of capacity CacheSize never holds more than CacheSize
\* entries, and adding a new key to a full cache evicts the entry used the
\* longest ago, a Get that hits counting as a use.
C17_BoundedLru ==
  [][/\ Len(cache') <= CacheSize
     /\ Cardinality(KeysOf(cache')) = Len(cache')
     /\ lookups' = lookups + 1 =>
          KeysOf(cache') =
            IF lookup'.hit \/ Len(cache) < CacheSize
              THEN KeysOf(cache) \cup {lookup'.key}
              ELSE (KeysOf(cache) \ {LeastRecentlyUsed(cache, lastUsed)})
                     \cup {lookup'.key}]_vars

\* The fourth lookup added a key to the full cache: the key added at the
\* second lookup went, and the key added at the first and found by the
\* third stays
C17_Witness ==
  /\ lookups = 4 /\ ~lookup.hit
  /\ Len(cache) = CacheSize
  /\ \E k \in KeysOf(cache) : added[k].at = 1 /\ lastUsed[k] = 3
  /\ \E k \in DOMAIN added : added[k].at = 2 /\ k \notin KeysOf(cache)

-----------------------------------------------------------------------------
(* Properties of handleEvent under reloads, checked under SpecReload       *)

\* handleEvent of e on b, all of it under the configuration g
handleEventIn(g, b, e, t) ==
  handleEventThroughMap(b, e, t,
                        GetMappingIn(Configs[g].Rules, e.metricName, e.kind),
                        Configs[g].Defaults, labelsMap)

\* The step in which handleEvent, past GetMapping, runs to its end
Completing == pending.called /\ ~pending'.called

\* C12: while watchConfig reloads the mapper, handleEvent works on one event
\* with the mapping and the defaults of one generation of the ruleset, never
\* a mixture, and an event whose handling begins after a reload uses the
\* new ruleset.
C12_OneGeneration ==
  [][/\ Completing =>
          \E g \in {pending.generation, generation} :
             exporter' = handleEventIn(g, exporter, events[idx], now)
     /\ (~pending.called /\ pending'.called) =>
          /\ pending'.generation = generation
          /\ pending'.m = GetMappingIn(Configs[generation].Rules,
                                       events[idx].metricName,
                                       events[idx].kind)]_vars

-----------------------------------------------------------------------------
(* Properties of the producers and the Exporter, checked under             *)
(* SpecProducers                                                           *)

\* A step of a listener task: of Listener or handlePacket, of the TCP
\* Listen or handleConn
ListenerStep ==
  \/ listenerVars' # listenerVars
  \/ tcpVars' # tcpVars
  \/ parserStats' # parserStats

\* The channel gets one batch more, at its end
Sent == Len(chan') = Len(chan) + 1 /\ SubSeq(chan', 1, Len(chan)) = chan

\* C13: the metric families, the label-value records and the hasher of
\* saveLabelValues are touched only by the steps of the one Exporter task
\* (handleEvent of the event in turn, removeStaleMetrics at the select);
\* the steps of the listener tasks, one per UDP packet and per TCP
\* connection, only build events and send batches on the channel.
C13_SingleWriter ==
  [][/\ exporter' # exporter =>
          \/ Handling /\ exporter' = handleEvent(exporter, events[idx], now)
          \/ Sweeping /\ exporter' = removeStaleMetrics(exporter, now)
     /\ ListenerStep =>
          /\ UNCHANGED <<exporter, events, idx, lastSweep>>
          /\ chan' = chan \/ Sent]_vars

\* A datagram and a TCP connection have been handled to their ends, and the
\* Exporter has applied counter events and run removeStaleMetrics
C13_Witness ==
  /\ udpPackets >= 1 /\ handlers = <<>>
  /\ accepted = 1 /\ conns = <<>> /\ linesReceived >= 3
  /\ Count(exporter.eventStats, "counter") >= 2
  /\ lastSweep >= 0

\* handleConn of the i-th connection is about to send the events of a line
Sending(i) ==
  /\ conns[i].started /\ conns[i].rest # <<>>
  /\ Head(conns[i].rest).kind = "line"
  /\ ~lineToEvents(Head(conns[i].rest).line).panic

-----------------------------------------------------------------------------
(* Properties of main, checked under SpecMain and SpecMainFair             *)

\* C14: when main has returned after the signal and the process ends, the
\* Exporter has handled every batch that was in the channel, has stopped its
\* ticker and has returned: no batch is left unprocessed at the exit.
C14_DrainedAtExit ==
  mainAt = "exited" =>
    /\ chan = <<>>
    /\ AtSelect
    /\ listening = "returned"

\* C19: in every startup that does not abort main eventually starts the
\* Exporter task, on Linux too, where the poll of the UDP buffers is called
\* before the mapper and the Exporter are made.
C19_ExporterEventuallyStarted ==
  <>(listening = "running" \/ mainAt = "aborted")


-----------------------------------------------------------------------------
(* Properties of the families, checked under SpecFamilies                  *)

\* The value of the gauge n with the labels l, 0 when there is no such child
GaugeValue(b, n, l) ==
  IF n \in DOMAIN b.Gauges /\ l \in DOMAIN b.Gauges[n].children
    THEN b.Gauges[n].children[l] ELSE Zero

\* The value of a sample is written with a leading + or -
Signed(sample) ==
  /\ Head(Split(sample, "|")) # <<>>
  /\ Head(Split(sample, "|"))[1] \in {"+", "-"}

\* handleEvent takes e as far as the update of its child
Applies(b, e) == ~Dropped(e) /\ ~NegativeCounter(e) /\ ~Conflicts(b, e)

\* C21: a gauge event is relative exactly when its value is written with a
\* leading + or -; handling an absolute gauge event sets the child to the
\* value (creating it), handling a relative one adds the signed value to the
\* child's value, 0 when the child is absent or was evicted; so a gauge
\* event of negative value is never applied as a set.
C21_GaugeSemantics ==
  [][/\ \A i \in 1..Len(handlers) :
          (Finishes(i) /\ ~crashed'
             /\ Len(chan'[Len(chan')]) = Len(SamplesOfPacket(handlers[i]))) =>
            \A k \in 1..Len(SamplesOfPacket(handlers[i])) :
               chan'[Len(chan')][k].kind = "gauge" =>
                 (chan'[Len(chan')][k].relative
                    <=> Signed(SamplesOfPacket(handlers[i])[k].sample))
     /\ (Handling /\ events[idx].kind = "gauge"
           /\ Applies(exporter, events[idx])) =>
          /\ TargetName(events[idx]) \in DOMAIN exporter'.Gauges
          /\ TargetLabels(events[idx])
               \in DOMAIN exporter'.Gauges[TargetName(events[idx])].children
          /\ GaugeValue(exporter', TargetName(events[idx]),
                        TargetLabels(events[idx]))
               = IF events[idx].relative
                   THEN RatAdd(GaugeValue(exporter, TargetName(events[idx]),
                                          TargetLabels(events[idx])),
                               events[idx].value)
                   ELSE events[idx].value
          /\ RatLess(events[idx].value, Zero) => events[idx].relative]_vars

\* "a:5|g", "a:-5|g" and "b:+2|g" were handled twice: the gauge a stands at
\* 0, and the gauge m, moved to 2 and evicted, was moved again, from 0
C21_Witness ==
  /\ Count(exporter.eventStats, "gauge") = 6
  /\ GaugeValue(exporter, <<"a">>, EmptyLabels) = Zero
  /\ EmptyLabels \in DOMAIN exporter.Gauges[<<"a">>].children
  /\ lastSweep > RuleTtl
  /\ GaugeValue(exporter, Str_m, EmptyLabels) = Rat(2, 1)
  /\ RecordOf(exporter, [name |-> Str_m, labels |-> EmptyLabels])
       .lastRegisteredAt > RuleTtl

-----------------------------------------------------------------------------
(* Timers under the rulesets of SpecReload                                  *)

\* The timer type of the rule GetMapping returned, unset when none matched
RuleTimerType == IF pending.m.nil THEN "" ELSE pending.m.mapping.TimerType

\* The timer container the claim names for the event being handled
ChosenTimers ==
  IF \/ RuleTimerType = "histogram"
     \/ /\ RuleTimerType = ""
        /\ Configs[generation].Defaults.TimerType = "histogram"
    THEN "Histograms" ELSE "Summaries"

OtherTimers == IF ChosenTimers = "Histograms" THEN "Summaries" ELSE "Histograms"

\* The observations of the child l of n in the container f of b
ObservationsIn(b, f, n, l) ==
  IF n \in DOMAIN b[f] /\ l \in DOMAIN b[f][n].children
    THEN b[f][n].children[l].count ELSE 0

\* One child of the container f has one observation more in c than in b
RecordedIn(b, c, f) ==
  \E n \in DOMAIN c[f] : \E l \in DOMAIN c[f][n].children :
     c[f][n].children[l].count = ObservationsIn(b, f, n, l) + 1

\* C23: a timer event that handleEvent does not drop is recorded in the
\* histograms iff the timer type of its rule is histogram, or is unset while
\* the timer type of the defaults is histogram, and in the summaries in
\* every other case: the other of the two containers is left as it is, and
\* the chosen one gains the observation unless the name conflicts, which
\* counts a conflict and records the event nowhere.
C23_TimerFamily ==
  [][(Completing /\ events[idx].kind = "timer"
        /\ (pending.m.nil \/ pending.m.mapping.Action # "drop")) =>
       /\ exporter'[OtherTimers] = exporter[OtherTimers]
       /\ exporter'.Counters = exporter.Counters
       /\ exporter'.Gauges = exporter.Gauges
       /\ IF Count(exporter'.eventStats, "timer")
              = Count(exporter.eventStats, "timer") + 1
            THEN RecordedIn(exporter, exporter', ChosenTimers)
            ELSE /\ exporter'[ChosenTimers] = exporter[ChosenTimers]
                 /\ Count(exporter'.conflictingEventStats, "timer")
                      = Count(exporter.conflictingEventStats, "timer") + 1]_vars

\* "t:4|ms|@0.5" and "b:3|ms" were handled under the first ruleset: t went
\* to a histogram by its rule's type, twice, and m to a summary with both
\* types unset; after the reload t went to the histogram again, and the
\* event of b, of a rule with no type, went for a histogram m by the
\* default's type and found the name taken
C23_Witness ==
  /\ generation = 2
  /\ Str_t \in DOMAIN exporter.Histograms
  /\ DOMAIN exporter.Histograms[Str_t].children
       = {(<<"j">> :> <<"w">>), (<<"j">> :> <<"x">>)}
  /\ Str_m \in DOMAIN exporter.Summaries
  /\ Str_m \notin DOMAIN exporter.Histograms
  /\ Count(exporter.conflictingEventStats, "timer") = 1
  /\ Count(exporter.eventStats, "timer") = 5

-----------------------------------------------------------------------------
(* Properties of the TCP connections, checked under SpecTcp                 *)

\* The step in which handleConn of the i-th connection returns and the
\* connection is closed
Closes(i) == conns[i].started /\ conns' = Without(conns, i)

\* The step in which handleConn of the i-th connection goes round its loop
Proceeds(i) ==
  /\ conns[i].started
  /\ Len(conns') = Len(conns)
  /\ conns'[i] # conns[i]

\* What handleConn of the i-th connection reads next
NextRead(i) ==
  IF conns[i].rest = <<>> THEN "EOF" ELSE Head(conns[i].rest).kind

\* C24: handleConn returns, closing its connection, only at the end of the
\* stream, at an error of the read and at a line too long; the error counts
\* tcpErrors once, the line too long tcpLineTooLong once, the end of the
\* stream neither; the step leaves the process running, the channel, the
\* acceptor and every other connection as they are.  Every line read before
\* was sent as a batch of its own by the step that read it.
C24_TcpErrorIsolated ==
  [][\A i \in 1..Len(conns) :
       /\ Closes(i) =>
            /\ NextRead(i) \in {"EOF", "error", "long"}
            /\ tcpErrors' = tcpErrors + (IF NextRead(i) = "error" THEN 1 ELSE 0)
            /\ tcpLineTooLong'
                 = tcpLineTooLong + (IF NextRead(i) = "long" THEN 1 ELSE 0)
            /\ ~crashed'
            /\ UNCHANGED <<chan, accepted, tcpConnections, linesReceived,
                           exporter>>
       /\ Proceeds(i) =>
            /\ NextRead(i) = "line"
            /\ conns'[i].rest = Tail(conns[i].rest)
            /\ linesReceived' = linesReceived + 1
            /\ ~crashed' =>
                 chan' = Append(chan, lineToEvents(Head(conns[i].rest).line).events)
            /\ UNCHANGED <<tcpErrors, tcpLineTooLong>>]_vars

\* One connection ended at an error of the read after its line "b:1|c" was
\* applied, and the other connection, past its first line, is still read
C24_Witness ==
  /\ ~crashed
  /\ tcpConnections = 2 /\ tcpErrors = 1 /\ tcpLineTooLong = 0
  /\ Str_m \in DOMAIN exporter.Counters
  /\ Len(conns) = 1 /\ conns[1].started
  /\ Len(conns[1].rest) = 1

\* Listen is at its select with nothing to receive and no producer running
Quiet ==
  /\ conns = <<>> /\ handlers = <<>> /\ chan = <<>> /\ AtSelect

-----------------------------------------------------------------------------
(* The labels map of the events of one sample, checked under SpecReloadTtl  *)

\* The labels of the rule GetMapping returned laid over the DogStatsD labels
\* of the event e
Overlaid(e, m) ==
  IF m.present
    THEN [k \in DOMAIN e.labels \cup DOMAIN m.labels |->
            IF k \in DOMAIN m.labels THEN m.labels[k] ELSE e.labels[k]]
    ELSE e.labels

\* C22: the child handleEvent updates for an event has the event's DogStatsD
\* labels overlaid with the labels of the rule, the rule's value standing
\* for every label name in both, and exactly the event's labels when no
\* rule matched: a series the registry gains in the step has those labels.
C22_LabelMerge ==
  [][Completing =>
       \A s \in SeriesOf(exporter') \ SeriesOf(exporter) :
          s.labels = Overlaid(events[idx], pending.m)]_vars

\* C25: children and label-value records correspond one to one: every child
\* of the four containers has a label-value record under its name with its
\* labels, and every label-value record has a child with its labels in a
\* container of its name.
C25_ChildrenAndRecords ==
  /\ \A s \in SeriesOf(exporter) :
       /\ s.name \in DOMAIN exporter.labelValues
       /\ \E h \in DOMAIN exporter.labelValues[s.name] :
            exporter.labelValues[s.name][h].labels = s.labels
  /\ \A n \in DOMAIN exporter.labelValues :
       \A h \in DOMAIN exporter.labelValues[n] :
          \E s \in SeriesOf(exporter) :
             s.name = n /\ s.labels = exporter.labelValues[n][h].labels

\* The labels saveLabelValues hashed to the key h: those of the child the
\* record was created for
LabelsHashed(h) == h[2]

\* C11, of removeStaleMetrics while the ruleset is reloaded: the run deletes
\* no label-value record whose TTL is zero or whose last update plus TTL is
\* not before now, and not the child such a record was saved for.
C11_KeptUnlessStale ==
  [][Sweeping =>
       \A n \in DOMAIN exporter.labelValues :
          \A h \in DOMAIN exporter.labelValues[n] :
             (\/ exporter.labelValues[n][h].ttl = 0
              \/ exporter.labelValues[n][h].lastRegisteredAt
                   + exporter.labelValues[n][h].ttl >= now) =>
                /\ n \in DOMAIN exporter'.labelValues
                /\ h \in DOMAIN exporter'.labelValues[n]
                /\ \A f \in FamilyNames :
                     (n \in DOMAIN exporter[f]
                        /\ LabelsHashed(h) \in DOMAIN exporter[f][n].children)
                       => LabelsHashed(h) \in DOMAIN exporter'[f][n].children]_vars

-----------------------------------------------------------------------------
(* The registrations under events, reloads and evictions, checked under     *)
(* SpecReloadTtl                                                            *)

\* The name, the container and the label names handleEvent goes to
\* registration with for the event it is handling
PendingName ==
  IF pending.m.present THEN escapeMetricName(pending.m.mapping.Name)
  ELSE escapeMetricName(events[idx].metricName)

PendingFamily ==
  CASE events[idx].kind = "counter" -> "Counters"
    [] events[idx].kind = "gauge" -> "Gauges"
    [] events[idx].kind = "timer" -> ChosenTimers

PendingLabelNames ==
  DOMAIN Overlaid(EventWithMap(events[idx], labelsMap), pending.m)

\* handleEvent takes the event it is handling as far as the registration
PendingRegisters ==
  /\ MappingWith(pending.m, Configs[generation].Defaults).Action # "drop"
  /\ ~NegativeCounter(events[idx])

\* Its name is registered with another family type or other label names
PendingConflicts ==
  /\ PendingName \in exporter.registered
  /\ \/ PendingName \notin DOMAIN exporter[PendingFamily]
     \/ exporter[PendingFamily][PendingName].labelNames # PendingLabelNames

\* The containers that hold the name n
Holders(b, n) == {f \in FamilyNames : n \in DOMAIN b[f]}

\* The containers and the registry, without the label-value records
Registrations(b) ==
  <<b.Counters, b.Gauges, b.Summaries, b.Histograms, b.registered>>

\* C26: a name once registered with a family type and label names stays in
\* that one container with those label names, across events, reloads and
\* evictions; an event for it of another type or with other label names is
\* rejected as a conflict, also when every child of the name was evicted;
\* and no name is in more than one of the four containers.
C26_RegistrationOutlivesChildren ==
  /\ [](\A n \in exporter.registered : Cardinality(Holders(exporter, n)) = 1)
  /\ [][/\ exporter.registered \subseteq exporter'.registered
        /\ \A f \in FamilyNames :
             \A n \in DOMAIN exporter[f] :
                /\ n \in DOMAIN exporter'[f]
                /\ exporter'[f][n].labelNames = exporter[f][n].labelNames
        /\ (Completing /\ PendingRegisters /\ PendingConflicts) =>
             /\ Registrations(exporter') = Registrations(exporter)
             /\ exporter'.conflictingEventStats
                  = Inc(exporter.conflictingEventStats, events[idx].kind)
             /\ exporter'.eventStats = exporter.eventStats]_vars

\* The summary m of "b:3|ms", under the TTL of its rule, was evicted and the
\* name is still held by the summaries, with no child and no label names;
\* after the reload the two events of "a:3|ms|@0.5" went for a summary m
\* with the label k and were rejected
C26_Witness ==
  /\ generation = 2
  /\ Str_m \in DOMAIN exporter.Summaries
  /\ DOMAIN exporter.Summaries[Str_m].children = {}
  /\ exporter.Summaries[Str_m].labelNames = {}
  /\ Holders(exporter, Str_m) = {"Summaries"}
  /\ lastSweep > RuleTtl
  /\ Count(exporter.conflictingEventStats, "timer") = 2

\* C9, of a conflict while the ruleset is reloaded: handling an event that
\* reaches the registration with a name registered with another family type
\* or other label names leaves the families and the label-value records as
\* they are, counts one conflict for the event's type and does not increment
\* eventStats.
C9_ConflictIsolatedUnderReload ==
  [][(Completing /\ PendingRegisters /\ PendingConflicts) =>
       ConflictCounted(exporter, exporter', events[idx])]_vars


-----------------------------------------------------------------------------
(* The gauge of the cache length, checked under SpecCache                   *)

\* C28: whenever every trackCacheLength goroutine that AddMatch and AddMiss
\* started has run and no add is in progress, the gauge cacheLength is the
\* number of entries in the cache.
C28_CacheLengthTracked == trackers = 0 => cacheLength = Len(cache)

=============================================================================
